---- MODULE Spec2Model ----
(***************************************************************************)
(* A model of gocov's coverage registry (gocov.go), of the trace log it    *)
(* writes and of the decoder of that log (parser.ParseTrace).              *)
(*                                                                         *)
(* Text is a sequence of atoms.  An atom is one character of the text, or  *)
(* one of the fixed words the registry writes ("RegisterPackage",          *)
(* "gocovObject", ...), which the scanner reads as a run of letters.       *)
(***************************************************************************)
EXTENDS Integers, Sequences, FiniteSets, TLC

VARIABLES
    heap,        \* the allocated Package / Function / Statement objects, by address
    Objects,     \* Context.Objects: the addresses of the registered objects, in order
    Tracer,      \* Context.Tracer: "nil" or "buf"
    TraceFlags,  \* Context.TraceFlags
    out,         \* what has been written to the Tracer, one element per write
    lastCall,    \* the public operation called last and its operands
    ret,         \* the object returned by the last registration (0: none)
    err,         \* the error returned by the last Accumulate ("nil": none)
    flagsSeen,   \* the values traceAll() has returned to Enter / Leave / At so far
    nops,        \* the number of operations called so far
    pc,          \* of each goroutine: the step of its call it is at
    locals,      \* of each goroutine: its call and the local variables of the call
    mu,          \* Context.Mutex / Package.Mu: the goroutine that holds it (0: none)
    tracePkgs,   \* pkgs, the packages ParseTrace returned (addresses in heap)
    reportPackages,  \* Report.packages (addresses in heap)
    cacheFindFuncs,  \* of each source file: the extents findFuncs found in it
    profiles,    \* the cover profiles ConvertProfiles converts: of each file, its blocks
    parsedFile,  \* the syntax tree of the source file the tools walk (*ast.File)
    tempDir,     \* gocov test: of each file name in the temporary directory, its lines
    testProcs,   \* gocov test: of each test binary, its state, its file offset, its lines
    testP,       \* gocov test: the -p flag, the number of test binaries run in parallel
    fillTasks,   \* fill phase: the tasks the producer goroutine has yet to send
    producerPc,  \* fill phase: the step the producer goroutine is at
    workers,     \* fill phase: of each worker goroutine, its step and the task it holds
    funcsChan,   \* fill phase: "open" or "closed"
    errChan,     \* fill phase: "open" or "closed"
    wg,          \* fill phase: the counter of the WaitGroup
    waiterPc,    \* fill phase: the step of the goroutine that waits for the workers
    convertPc,   \* fill phase: the step ConvertProfiles is at
    filled,      \* fill phase: the keys of cacheFindFuncs and converter.packages set
    goPkg,       \* the package goPackages.Load returns for the directory of the profiles
    visitedFunctions,  \* var visitedFunctions: the keys of the map
    converted,   \* of each profile file converted so far: the packages of its converter
    importGraph, \* gocov test: the imports of the packages, and the flags of the command
    packagePaths,  \* gocov test: the requested packages instrumentAndTest has yet to call
    instrumenter,  \* gocov test: the maps in.instrumented and in.processed (their keys)
    callStack,   \* gocov test: the calls of instrumentPackage in progress, innermost last
    rewritten    \* gocov test: of each package, how often its files were rewritten

vars == <<heap, Objects, Tracer, TraceFlags, out, lastCall, ret, err, flagsSeen, nops,
          pc, locals, mu, tracePkgs, reportPackages, cacheFindFuncs, profiles,
          parsedFile, tempDir, testProcs, testP, fillTasks, producerPc, workers,
          funcsChan, errChan, wg, waiterPc, convertPc, filled, goPkg,
          visitedFunctions, converted, importGraph, packagePaths, instrumenter,
          callStack, rewritten>>

goroutineVars == <<pc, locals, mu>>

\* The state of the tools that read traces and profiles.
\* The state of the tools that walk source files and run the tests.
testVars == <<tempDir, testProcs, testP>>

fillVars == <<fillTasks, producerPc, workers, funcsChan, errChan, wg, waiterPc,
              convertPc, filled>>

pkgVars == <<goPkg, visitedFunctions, converted>>

depsVars == <<importGraph, packagePaths, instrumenter, callStack, rewritten>>

runVars == <<testVars, fillVars, pkgVars, depsVars>>

cmdVars == <<parsedFile, runVars>>

toolVars == <<tracePkgs, reportPackages, cacheFindFuncs, profiles, cmdVars>>

----------------------------------------------------------------------------
\* Bounds of the model.

MaxObjects == 3
MaxOps == 5

\* TraceAll TraceFlag = 0x00000001
TraceAll == 1

----------------------------------------------------------------------------
\* Text.

QUOTE == "\""
BSLASH == "\\"
NEWLINE == "\n"

DigitChars == <<"0", "1", "2", "3", "4", "5", "6", "7", "8", "9">>

Digits == {DigitChars[i] : i \in 1..10}

Words == {"RegisterPackage", "RegisterFunction", "RegisterStatement",
          "Enter", "Leave", "At", "gocovObject"}

NameLetters == {"p", "q", "n"}

Letters == Words \cup NameLetters

DigitVal(a) == CHOOSE d \in 0..9 : DigitChars[d + 1] = a

\* The byte value of a character of a name, for the comparison of strings.
Rank(a) ==
    CASE a = NEWLINE -> 10
      [] a = QUOTE -> 34
      [] a = BSLASH -> 92
      [] a = "n" -> 110
      [] a = "p" -> 112
      [] a = "q" -> 113

RECURSIVE StrLess(_, _)
\* s1 < s2, as Go compares strings (bytewise).
StrLess(s1, s2) ==
    IF s2 = <<>> THEN FALSE
    ELSE IF s1 = <<>> THEN TRUE
    ELSE IF Rank(Head(s1)) # Rank(Head(s2)) THEN Rank(Head(s1)) < Rank(Head(s2))
    ELSE StrLess(Tail(s1), Tail(s2))

StrGeq(s1, s2) == ~StrLess(s1, s2)

\* const maxint = int(^uint(0) >> 1), for an int of 32 bits (GOARCH=386, arm).
MaxInt == 2147483647
MinInt == -MaxInt - 1

\* -v computed in an int: the negation of the minimum int wraps to itself.
Neg(v) == IF v = MinInt THEN MinInt ELSE -v

\* var buf [19]byte
BufLen == 19

\* What itoa yields when it panics.
Panic == <<"panic">>

RECURSIVE itoaDigitsReversed(_)
\* The loop of itoa filling the buffer from its front.
itoaDigitsReversed(v) ==
    IF v >= 10 THEN <<DigitChars[(v % 10) + 1]>> \o itoaDigitsReversed(v \div 10)
    ELSE <<DigitChars[v + 1]>>

RECURSIVE itoaDigits(_)
\* The loop of itoa on v >= 0: the decimal digits of v, most significant first.
itoaDigits(v) ==
    IF v >= 10 THEN itoaDigits(v \div 10) \o <<DigitChars[(v % 10) + 1]>>
    ELSE <<DigitChars[v + 1]>>

\* itoa on v >= 0: string(buf[i:]), or the panic of an index out of the buffer.
itoaBuf(v) ==
    LET d == itoaDigits(v)
    IN IF Len(d) > BufLen THEN Panic ELSE d

itoa(v) ==
    IF v < 0
    THEN IF Neg(v) = v THEN Panic
         ELSE LET r == itoaBuf(Neg(v))
              IN IF r = Panic THEN Panic ELSE <<"-">> \o r
    ELSE itoaBuf(v)

----------------------------------------------------------------------------
\* Objects.

NoObject ==
    [kind |-> "none", uid |-> 0, Name |-> <<>>, File |-> <<>>, Start |-> 0, End |-> 0,
     Functions |-> <<>>, Statements |-> <<>>, Entered |-> 0, Left |-> 0, Reached |-> 0]

\* &Package{object: obj, Name: name}
NewPackage(uid, name) == [NoObject EXCEPT !.kind = "Package", !.uid = uid, !.Name = name]

\* &Function{object: obj, Name: name, File: file, Start: startOffset, End: endOffset}
NewFunction(uid, name, file, startOffset, endOffset) ==
    [NoObject EXCEPT !.kind = "Function", !.uid = uid, !.Name = name, !.File = file,
                     !.Start = startOffset, !.End = endOffset]

\* &Statement{object: obj, Start: startOffset, End: endOffset}
NewStatement(uid, startOffset, endOffset) ==
    [NoObject EXCEPT !.kind = "Statement", !.uid = uid,
                     !.Start = startOffset, !.End = endOffset]

\* (o *object) String()
String(uid) == <<"gocovObject">> \o itoa(uid)

\* A context: the fields of Context and the objects allocated for it.
Context(h, objs, tracer, flags, written) ==
    [heap |-> h, Objects |-> objs, Tracer |-> tracer, TraceFlags |-> flags, out |-> written]

traceAll(c) == (c.TraceFlags % 2) = TraceAll

\* (c *Context) log: one write of the whole message, when there is a Tracer.
log(c, bytes) ==
    IF c.Tracer # "nil" THEN [c EXCEPT !.out = Append(@, bytes)] ELSE c

\* allocObject without the increment.
allocObjectNoIncrement(c) ==
    LET n == Len(c.Objects)
    IN IF n > 0 THEN c.heap[c.Objects[n]].uid ELSE 0

\* (c *Context) allocObject: the uid of the next object.
allocObject(c) ==
    LET n == Len(c.Objects)
    IN IF n > 0 THEN c.heap[c.Objects[n]].uid + 1 ELSE 0

\* The messages of the three registrations.
PackageMsg(name, uid) ==
    <<"RegisterPackage", "(", QUOTE>> \o name \o <<QUOTE, ")", ":", " ">>
      \o String(uid) \o <<NEWLINE>>

FunctionMsg(puid, name, file, startOffset, endOffset, uid) ==
    String(puid) \o <<".", "RegisterFunction", "(">>
      \o <<QUOTE>> \o name \o <<QUOTE, ",", " ", QUOTE>> \o file \o <<QUOTE, ",", " ">>
      \o itoa(startOffset) \o <<",", " ">> \o itoa(endOffset)
      \o <<")", ":", " ">> \o String(uid) \o <<NEWLINE>>

StatementMsg(fuid, startOffset, endOffset, uid) ==
    String(fuid) \o <<".", "RegisterStatement", "(">>
      \o itoa(startOffset) \o <<",", " ">> \o itoa(endOffset)
      \o <<")", ":", " ">> \o String(uid) \o <<NEWLINE>>

enterString(uid) == String(uid) \o <<".", "Enter", "(", ")", NEWLINE>>
leaveString(uid) == String(uid) \o <<".", "Leave", "(", ")", NEWLINE>>
atString(uid) == String(uid) \o <<".", "At", "(", ")", NEWLINE>>

\* (c *Context) RegisterPackage: the context afterwards and the new object.
RegisterPackage(c, name) ==
    LET uid == allocObject(c)
        p == Len(c.heap) + 1
        c1 == [c EXCEPT !.heap = Append(@, NewPackage(uid, name)),
                        !.Objects = Append(@, p)]
    IN [c |-> log(c1, PackageMsg(name, uid)), obj |-> p]

\* (p *Package) RegisterFunction
RegisterFunction(c, p, name, file, startOffset, endOffset) ==
    LET uid == allocObject(c)
        f == Len(c.heap) + 1
        h1 == Append(c.heap, NewFunction(uid, name, file, startOffset, endOffset))
        c1 == [c EXCEPT !.heap = [h1 EXCEPT ![p].Functions = Append(@, f)],
                        !.Objects = Append(@, f)]
    IN [c |-> log(c1, FunctionMsg(c.heap[p].uid, name, file, startOffset, endOffset, uid)),
        obj |-> f]

\* (f *Function) RegisterStatement
RegisterStatement(c, f, startOffset, endOffset) ==
    LET uid == allocObject(c)
        s == Len(c.heap) + 1
        h1 == Append(c.heap, NewStatement(uid, startOffset, endOffset))
        c1 == [c EXCEPT !.heap = [h1 EXCEPT ![f].Statements = Append(@, s)],
                        !.Objects = Append(@, s)]
    IN [c |-> log(c1, StatementMsg(c.heap[f].uid, startOffset, endOffset, uid)),
        obj |-> s]

\* atomic.AddInt64(&x, 1): the new value.
AddInt64(x) == x + 1

\* shouldLog without the test of the TraceAll flag.
shouldLogFirstOnly(new, c) == new = 1

\* shouldLog without the test of the counter.
shouldLogAlways(new, c) == TRUE

\* The condition under which Enter, Leave and At log: new is the value AddInt64 returned.
shouldLog(new, c) == new = 1 \/ traceAll(c)

\* (f *Function) Enter
Enter(c, f) ==
    LET new == AddInt64(c.heap[f].Entered)
        c1 == [c EXCEPT !.heap[f].Entered = new]
    IN IF shouldLog(new, c) THEN log(c1, enterString(c.heap[f].uid)) ELSE c1

\* Leave as a copy of Enter.
LeaveAsEnter(c, f) ==
    LET new == AddInt64(c.heap[f].Entered)
        c1 == [c EXCEPT !.heap[f].Entered = new]
    IN IF shouldLog(new, c) THEN log(c1, enterString(c.heap[f].uid)) ELSE c1

\* (f *Function) Leave
Leave(c, f) ==
    LET new == AddInt64(c.heap[f].Left)
        c1 == [c EXCEPT !.heap[f].Left = new]
    IN IF shouldLog(new, c) THEN log(c1, leaveString(c.heap[f].uid)) ELSE c1

\* (s *Statement) At
At(c, s) ==
    LET new == AddInt64(c.heap[s].Reached)
        c1 == [c EXCEPT !.heap[s].Reached = new]
    IN IF shouldLog(new, c) THEN log(c1, atString(c.heap[s].uid)) ELSE c1

----------------------------------------------------------------------------
\* Accumulate.

\* Statement.Accumulate that moves the count: it resets Reached of its argument.
StatementAccumulateMove(h, s, s2) ==
    IF h[s].Start # h[s2].Start \/ h[s].End # h[s2].End
    THEN [heap |-> h, err |-> "Source ranges do not match"]
    ELSE [heap |-> [h EXCEPT ![s].Reached = @ + h[s2].Reached, ![s2].Reached = 0],
          err |-> "nil"]

\* Statement.Accumulate that compares Start alone.
StatementAccumulateStartOnly(h, s, s2) ==
    IF h[s].Start # h[s2].Start
    THEN [heap |-> h, err |-> "Source ranges do not match"]
    ELSE [heap |-> [h EXCEPT ![s].Reached = @ + h[s2].Reached], err |-> "nil"]

\* (s *Statement) Accumulate: the heap afterwards and the error returned.
StatementAccumulate(h, s, s2) ==
    IF h[s].Start # h[s2].Start \/ h[s].End # h[s2].End
    THEN [heap |-> h, err |-> "Source ranges do not match"]
    ELSE [heap |-> [h EXCEPT ![s].Reached = @ + h[s2].Reached], err |-> "nil"]

RECURSIVE AccumulateStatements(_, _, _, _)
\* The loop of Function.Accumulate over f.Statements, from index i on.
AccumulateStatements(h, f, f2, i) ==
    IF i > Len(h[f].Statements) THEN [heap |-> h, err |-> "nil"]
    ELSE LET r == StatementAccumulate(h, h[f].Statements[i], h[f2].Statements[i])
         IN IF r.err # "nil" THEN r
            ELSE AccumulateStatements(r.heap, f, f2, i + 1)

\* Function.Accumulate that adds Entered and Left before it compares the numbers
\* of statements.
FunctionAccumulateEager(h, f, f2) ==
    IF h[f].Name # h[f2].Name THEN [heap |-> h, err |-> "Names do not match"]
    ELSE IF h[f].File # h[f2].File THEN [heap |-> h, err |-> "Files do not match"]
    ELSE IF h[f].Start # h[f2].Start \/ h[f].End # h[f2].End
      THEN [heap |-> h, err |-> "Source ranges do not match"]
    ELSE LET h1 == [h EXCEPT ![f].Entered = @ + h[f2].Entered]
             h2 == [h1 EXCEPT ![f].Left = @ + h1[f2].Left]
         IN IF Len(h[f].Statements) # Len(h[f2].Statements)
            THEN [heap |-> h2, err |-> "Number of statements do not match"]
            ELSE AccumulateStatements(h2, f, f2, 1)

\* Function.Accumulate that leaves Left out.
FunctionAccumulateNoLeft(h, f, f2) ==
    IF h[f].Name # h[f2].Name THEN [heap |-> h, err |-> "Names do not match"]
    ELSE IF h[f].File # h[f2].File THEN [heap |-> h, err |-> "Files do not match"]
    ELSE IF h[f].Start # h[f2].Start \/ h[f].End # h[f2].End
      THEN [heap |-> h, err |-> "Source ranges do not match"]
    ELSE IF Len(h[f].Statements) # Len(h[f2].Statements)
      THEN [heap |-> h, err |-> "Number of statements do not match"]
    ELSE AccumulateStatements([h EXCEPT ![f].Entered = @ + h[f2].Entered], f, f2, 1)

\* (f *Function) Accumulate
FunctionAccumulate(h, f, f2) ==
    IF h[f].Name # h[f2].Name THEN [heap |-> h, err |-> "Names do not match"]
    ELSE IF h[f].File # h[f2].File THEN [heap |-> h, err |-> "Files do not match"]
    ELSE IF h[f].Start # h[f2].Start \/ h[f].End # h[f2].End
      THEN [heap |-> h, err |-> "Source ranges do not match"]
    ELSE IF Len(h[f].Statements) # Len(h[f2].Statements)
      THEN [heap |-> h, err |-> "Number of statements do not match"]
    ELSE LET h1 == [h EXCEPT ![f].Entered = @ + h[f2].Entered]
             h2 == [h1 EXCEPT ![f].Left = @ + h1[f2].Left]
         IN AccumulateStatements(h2, f, f2, 1)

RECURSIVE AccumulateFunctions(_, _, _, _)
\* The loop of Package.Accumulate over p.Functions, from index i on.
AccumulateFunctions(h, p, p2, i) ==
    IF i > Len(h[p].Functions) THEN [heap |-> h, err |-> "nil"]
    ELSE LET r == FunctionAccumulate(h, h[p].Functions[i], h[p2].Functions[i])
         IN IF r.err # "nil" THEN r
            ELSE AccumulateFunctions(r.heap, p, p2, i + 1)

\* (p *Package) Accumulate
PackageAccumulate(h, p, p2) ==
    IF h[p].Name # h[p2].Name THEN [heap |-> h, err |-> "Names do not match"]
    ELSE IF Len(h[p].Functions) # Len(h[p2].Functions)
      THEN [heap |-> h, err |-> "Function counts do not match"]
    ELSE AccumulateFunctions(h, p, p2, 1)

----------------------------------------------------------------------------
\* The scanner the decoder reads the log with (go/scanner, mode 0).

Token(tok, lit, pos, semi) == [tok |-> tok, lit |-> lit, pos |-> pos, insertSemi |-> semi]

RECURSIVE skipWhitespace(_, _, _)
\* The first position from pos on that holds no blank, and no newline unless a
\* semicolon is due.
skipWhitespace(text, pos, semi) ==
    IF pos <= Len(text) /\ (text[pos] = " " \/ (text[pos] = NEWLINE /\ ~semi))
    THEN skipWhitespace(text, pos + 1, semi)
    ELSE pos

RECURSIVE runEnd(_, _, _)
\* The position after the run of atoms of the set chars that starts at pos.
runEnd(text, pos, chars) ==
    IF pos <= Len(text) /\ text[pos] \in chars THEN runEnd(text, pos + 1, chars) ELSE pos

RECURSIVE scanString(_, _)
\* The position after the string literal whose opening quote has been read:
\* after its closing quote, or at the newline or end of text that cuts it short.
scanString(text, pos) ==
    IF pos > Len(text) \/ text[pos] = NEWLINE THEN pos
    ELSE IF text[pos] = QUOTE THEN pos + 1
    ELSE IF text[pos] = BSLASH
      THEN IF pos + 1 <= Len(text) /\ text[pos + 1] \in {"n", BSLASH, QUOTE}
           THEN scanString(text, pos + 2)    \* scanEscape read a known escape
           ELSE scanString(text, pos + 1)    \* unknown escape: reported, nothing read
    ELSE scanString(text, pos + 1)

\* (s *Scanner) Scan: the next token from pos on.
Scan(text, pos, semi) ==
    LET p == skipWhitespace(text, pos, semi)
    IN IF p > Len(text)
       THEN IF semi THEN Token("SEMICOLON", <<NEWLINE>>, p, FALSE)
                    ELSE Token("EOF", <<>>, p, FALSE)
       ELSE LET ch == text[p]
            IN CASE ch \in Letters ->
                      LET e == runEnd(text, p, Letters \cup Digits)
                      IN Token("IDENT", SubSeq(text, p, e - 1), e, TRUE)
                 [] ch \in Digits ->
                      LET e == runEnd(text, p, Digits)
                      IN Token("INT", SubSeq(text, p, e - 1), e, TRUE)
                 [] ch = NEWLINE -> Token("SEMICOLON", <<NEWLINE>>, p + 1, FALSE)
                 [] ch = QUOTE ->
                      LET e == scanString(text, p + 1)
                      IN Token("STRING", SubSeq(text, p, e - 1), e, TRUE)
                 [] ch = ":" -> Token("COLON", <<>>, p + 1, FALSE)
                 [] ch = "," -> Token("COMMA", <<>>, p + 1, FALSE)
                 [] ch = "." -> Token("PERIOD", <<>>, p + 1, FALSE)
                 [] ch = "(" -> Token("LPAREN", <<>>, p + 1, FALSE)
                 [] ch = ")" -> Token("RPAREN", <<>>, p + 1, TRUE)
                 [] ch = "-" -> Token("SUB", <<>>, p + 1, FALSE)
                 [] OTHER -> Token("ILLEGAL", <<ch>>, p + 1, semi)

RECURSIVE unquoteChars(_)
\* The loop of strconv.Unquote over the inside of a double-quoted literal.
unquoteChars(body) ==
    IF body = <<>> THEN [ok |-> TRUE, s |-> <<>>]
    ELSE IF Head(body) = QUOTE \/ Head(body) = NEWLINE THEN [ok |-> FALSE, s |-> <<>>]
    ELSE IF Head(body) = BSLASH
      THEN IF Len(body) < 2 \/ body[2] \notin {"n", BSLASH, QUOTE}
           THEN [ok |-> FALSE, s |-> <<>>]
           ELSE LET rest == unquoteChars(SubSeq(body, 3, Len(body)))
                    c == IF body[2] = "n" THEN NEWLINE ELSE body[2]
                IN [ok |-> rest.ok, s |-> IF rest.ok THEN <<c>> \o rest.s ELSE <<>>]
    ELSE LET rest == unquoteChars(Tail(body))
         IN [ok |-> rest.ok, s |-> IF rest.ok THEN <<Head(body)>> \o rest.s ELSE <<>>]

\* name, _ := strconv.Unquote(lit): the empty string when Unquote fails.
Unquote(lit) ==
    IF Len(lit) < 2 \/ lit[1] # QUOTE \/ lit[Len(lit)] # QUOTE THEN <<>>
    ELSE unquoteChars(SubSeq(lit, 2, Len(lit) - 1)).s

RECURSIVE atoiDigits(_, _)
atoiDigits(lit, acc) ==
    IF lit = <<>> THEN acc ELSE atoiDigits(Tail(lit), 10 * acc + DigitVal(Head(lit)))

\* strconv.Atoi of a literal without sign.
Atoi(lit) ==
    IF lit # <<>> /\ \A i \in 1..Len(lit) : lit[i] \in Digits
    THEN [ok |-> TRUE, val |-> atoiDigits(lit, 0)]
    ELSE [ok |-> FALSE, val |-> 0]

\* objnameToUid: ok is FALSE where it panics.
objnameToUid(objname) ==
    IF objname = <<>> \/ Head(objname) # "gocovObject" THEN [ok |-> FALSE, val |-> 0]
    ELSE Atoi(Tail(objname))

----------------------------------------------------------------------------
\* The decoder of the log (package parser).

\* The parser after construction in ParseTrace.
NewParser(text) ==
    [text |-> text, pos |-> 1, insertSemi |-> FALSE, tok |-> "NONE", lit |-> <<>>,
     context |-> Context(<<>>, <<>>, "nil", 0, <<>>),
     objects |-> <<>>, packages |-> <<>>, panicked |-> FALSE]

\* (p *parser) next
next(p) ==
    LET t == Scan(p.text, p.pos, p.insertSemi)
    IN [p EXCEPT !.tok = t.tok, !.lit = t.lit, !.pos = t.pos, !.insertSemi = t.insertSemi]

panic(p) == [p EXCEPT !.panicked = TRUE]

\* (p *parser) expect
expect(p, tok) == IF p.tok # tok THEN panic(p) ELSE p

\* (p *parser) expectNext; a parser that has panicked stays as it is.
expectNext(p, tok) == IF p.panicked THEN p ELSE expect(next(p), tok)

\* p.objects[uid] = obj
SetObject(p, uid, obj) ==
    [p EXCEPT !.objects = [u \in DOMAIN p.objects \cup {uid} |->
                              IF u = uid THEN obj ELSE p.objects[u]]]

RECURSIVE expectTokens(_, _, _)
\* The literal p.lit the parser holds after an expectNext, kept for the statements
\* that read it, and the calls of expectNext that follow.
readLit(p, toks, lits) == expectTokens(p, toks, Append(lits, p.lit))

\* The calls p.expectNext(tok) a parse function makes, for the tokens toks in
\* turn: the parser after them and the literal read at each. A panic ends them.
expectTokens(p, toks, lits) ==
    IF toks = <<>> \/ p.panicked THEN [p |-> p, lits |-> lits]
    ELSE readLit(expectNext(p, Head(toks)), Tail(toks), lits)

\* if obj.Uid() != uid, never true.
uidDiffersNever(r, uid) == FALSE

\* if obj.Uid() != uid, for the object r.obj just registered in the context r.c.
uidDiffers(r, uid) == r.c.heap[r.obj].uid # uid.val

\* The end of the three parseRegister functions: uid is what objnameToUid gave
\* for the ref the line ends with (a panic where it is not ok), r the registration
\* made in the parser's context.
store(p, uid, r) ==
    IF ~uid.ok THEN panic(p)
    ELSE IF uidDiffers(r, uid) THEN panic([p EXCEPT !.context = r.c])
    ELSE SetObject([p EXCEPT !.context = r.c], uid.val, r.obj)

\* p.packages = append(p.packages, pkg)
appendPackage(p, pkg) == IF p.panicked THEN p ELSE [p EXCEPT !.packages = Append(@, pkg)]

\* parseRegisterPackage from the comparison of the uids on.
registerPackage(p, uid, r) == appendPackage(store(p, uid, r), r.obj)

\* parseRegisterPackage after its tokens.
parsedRegisterPackage(e) ==
    IF e.p.panicked THEN e.p
    ELSE registerPackage(e.p, objnameToUid(e.lits[5]),
                         RegisterPackage(e.p.context, Unquote(e.lits[2])))

\* (p *parser) parseRegisterPackage
parseRegisterPackage(p) ==
    parsedRegisterPackage(
        expectTokens(p, <<"LPAREN", "STRING", "RPAREN", "COLON", "IDENT">>, <<>>))

\* parseRegisterFunction after its tokens.
parsedRegisterFunction(e, pkg) ==
    IF e.p.panicked THEN e.p
    ELSE store(e.p, objnameToUid(e.lits[11]),
               RegisterFunction(e.p.context, pkg, Unquote(e.lits[2]), Unquote(e.lits[4]),
                                Atoi(e.lits[6]).val, Atoi(e.lits[8]).val))

\* (p *parser) parseRegisterFunction
parseRegisterFunction(p, pkg) ==
    parsedRegisterFunction(
        expectTokens(p, <<"LPAREN", "STRING", "COMMA", "STRING", "COMMA", "INT", "COMMA",
                          "INT", "RPAREN", "COLON", "IDENT">>, <<>>),
        pkg)

\* parseRegisterStatement after its tokens.
parsedRegisterStatement(e, fn) ==
    IF e.p.panicked THEN e.p
    ELSE store(e.p, objnameToUid(e.lits[7]),
               RegisterStatement(e.p.context, fn, Atoi(e.lits[2]).val, Atoi(e.lits[4]).val))

\* (p *parser) parseRegisterStatement
parseRegisterStatement(p, fn) ==
    parsedRegisterStatement(
        expectTokens(p, <<"LPAREN", "INT", "COMMA", "INT", "RPAREN", "COLON", "IDENT">>,
                     <<>>),
        fn)

\* (p *parser) parseEnterLeave
parseEnterLeave(p, fn, entered) ==
    LET p1 == expectNext(p, "LPAREN")
        p2 == expectNext(p1, "RPAREN")
    IN IF p2.panicked THEN p2
       ELSE IF entered THEN [p2 EXCEPT !.context = Enter(@, fn)]
       ELSE [p2 EXCEPT !.context = Leave(@, fn)]

\* (p *parser) parseAt
parseAt(p, stmt) ==
    LET p1 == expectNext(p, "LPAREN")
        p2 == expectNext(p1, "RPAREN")
    IN IF p2.panicked THEN p2 ELSE [p2 EXCEPT !.context = At(@, stmt)]

\* The switch of parse on the method name p.lit, for the object obj the line names;
\* the type assertion obj.(*T) panics when the object is of another type.
parseMethod(p, obj) ==
    LET kind == p.context.heap[obj].kind
        m == p.lit
    IN IF p.panicked THEN p
       ELSE CASE m = <<"RegisterFunction">> ->
                   IF kind = "Package" THEN parseRegisterFunction(p, obj) ELSE panic(p)
              [] m = <<"RegisterStatement">> ->
                   IF kind = "Function" THEN parseRegisterStatement(p, obj) ELSE panic(p)
              [] m = <<"Enter">> \/ m = <<"Leave">> ->
                   IF kind = "Function" THEN parseEnterLeave(p, obj, m = <<"Enter">>)
                   ELSE panic(p)
              [] m = <<"At">> ->
                   IF kind = "Statement" THEN parseAt(p, obj) ELSE panic(p)
              [] OTHER -> p

\* The branch of parse for a line that calls a method of an object.
parseCall(p) ==
    LET uid == objnameToUid(p.lit)
    IN IF ~uid.ok THEN panic(p)
       ELSE IF uid.val \notin DOMAIN p.objects THEN panic(p)
       ELSE parseMethod(expectNext(expectNext(p, "PERIOD"), "IDENT"), p.objects[uid.val])

\* The body of the loop of parse from p.expect(token.IDENT) to the call the line
\* makes; p holds the first token of the line.
parseLine(p) ==
    IF p.panicked THEN p
    ELSE IF p.lit = <<"RegisterPackage">> THEN parseRegisterPackage(p)
    ELSE parseCall(p)

RECURSIVE parse(_)
\* The loop of parse after p.next(); p.expect(token.SEMICOLON) at the end of a line.
parseNextLine(p) == IF p.panicked THEN p ELSE parse(p)

\* The loop of parse once p.next() has read the first token of a line.
parseFrom(p) ==
    IF p.tok = "EOF" THEN p
    ELSE parseNextLine(expectNext(parseLine(expect(p, "IDENT")), "SEMICOLON"))

\* (p *parser) parse
parse(p) == parseFrom(next(p))

RECURSIVE Search(_, _, _)
\* sort.Search(n, f), with f given as the function pred on 0..n-1: the loop from
\* the bounds i, j.
Search(pred, i, j) ==
    IF i < j
    THEN LET h == (i + j) \div 2
         IN IF ~pred[h] THEN Search(pred, h + 1, j) ELSE Search(pred, i, h)
    ELSE i

\* pkgs with p inserted before index i (counted from 0).
InsertAt(pkgs, i, p) == SubSeq(pkgs, 1, i) \o <<p>> \o SubSeq(pkgs, i + 1, Len(pkgs))

RECURSIVE mergePackages(_, _, _, _)
\* The loop of ParseTrace that merges the packages with the same path, from the
\* k-th package on; the error Accumulate returns is dropped.
mergePackages(h, packages, k, pkgs) ==
    IF k > Len(packages) THEN [heap |-> h, pkgs |-> pkgs]
    ELSE LET p == packages[k]
             n == Len(pkgs)
             i == Search([x \in 0..(n - 1) |-> StrGeq(h[pkgs[x + 1]].Name, h[p].Name)], 0, n)
         IN IF i < n /\ h[pkgs[i + 1]].Name = h[p].Name
            THEN mergePackages(PackageAccumulate(h, pkgs[i + 1], p).heap, packages, k + 1, pkgs)
            ELSE mergePackages(h, packages, k + 1, InsertAt(pkgs, i, p))

RECURSIVE Flatten(_)
\* The bytes of the log file: the writes, one after the other.
Flatten(writes) == IF writes = <<>> THEN <<>> ELSE Head(writes) \o Flatten(Tail(writes))

\* What ParseTrace returns, when it returns the packages decoded before the error
\* with the error.
returnedKeepsPackages(p) ==
    LET m == mergePackages(p.context.heap, p.packages, 1, <<>>)
    IN [err |-> p.panicked, pkgs |-> m.pkgs, heap |-> m.heap]

\* What ParseTrace returns once parse has ended in the parser p: the packages
\* (addresses in heap) and whether an error is returned.
returned(p) ==
    LET m == mergePackages(p.context.heap, p.packages, 1, <<>>)
    IN IF p.panicked THEN [err |-> TRUE, pkgs |-> <<>>, heap |-> p.context.heap]
       ELSE [err |-> FALSE, pkgs |-> m.pkgs, heap |-> m.heap]

\* ParseTrace on a file that holds text.
ParseTrace(text) == returned(parse(NewParser(text)))

----------------------------------------------------------------------------
\* The registry driven by one goroutine.

\* The arguments the registrations are called with.
PkgNames == {<<"p">>, <<"q">>, <<"p", QUOTE>>}
FuncNames == {<<"n">>, <<BSLASH, "n">>}
FileNames == {<<"p">>, <<BSLASH, "p">>}
Ranges == {<<0, 1>>, <<2, 13>>}

Addrs(kind) == {a \in 1..Len(heap) : heap[a].kind = kind}

Ctx == Context(heap, Objects, Tracer, TraceFlags, out)

Call(op, a, b) == [op |-> op, a |-> a, b |-> b]

\* The tools of the gocov command have not run.
\* gocov test has not run.
NoTest ==
    /\ tempDir = <<>>
    /\ testProcs = <<>>
    /\ testP = 0

\* ConvertProfiles has not started its fill phase.
NoFill ==
    /\ fillTasks = <<>>
    /\ producerPc = "none"
    /\ workers = <<>>
    /\ funcsChan = "none"
    /\ errChan = "none"
    /\ wg = 0
    /\ waiterPc = "none"
    /\ convertPc = "none"
    /\ filled = {}

\* No package loaded, no profile file converted.
NoPkg ==
    /\ goPkg = <<>>
    /\ visitedFunctions = {}
    /\ converted = <<>>

\* gocov test has not started to instrument packages.
NoDeps ==
    /\ importGraph = <<>>
    /\ packagePaths = <<>>
    /\ instrumenter = <<>>
    /\ callStack = <<>>
    /\ rewritten = <<>>

NoRun ==
    /\ NoTest
    /\ NoFill
    /\ NoPkg
    /\ NoDeps

NoCmd ==
    /\ parsedFile = <<>>
    /\ NoRun

\* No trace decoded, no report, no profile.
NoTools ==
    /\ NoCmd
    /\ tracePkgs = <<>>
    /\ reportPackages = <<>>
    /\ cacheFindFuncs = <<>>
    /\ profiles = <<>>

\* No goroutine other than the caller.
NoGoroutines ==
    /\ pc = <<>>
    /\ locals = <<>>
    /\ mu = 0

SetCtx(c) ==
    /\ heap' = c.heap
    /\ Objects' = c.Objects
    /\ out' = c.out
    /\ UNCHANGED <<Tracer, TraceFlags, goroutineVars>>

Init ==
    /\ heap = <<>>
    /\ Objects = <<>>
    /\ Tracer \in {"nil", "buf"}
    /\ TraceFlags \in {0, TraceAll}
    /\ out = <<>>
    /\ lastCall = Call("none", 0, 0)
    /\ ret = 0
    /\ err = "nil"
    /\ flagsSeen = {}
    /\ nops = 0
    /\ NoGoroutines
    /\ NoTools

DoRegisterPackage ==
    /\ Len(Objects) < MaxObjects
    /\ \E name \in PkgNames :
         LET r == RegisterPackage(Ctx, name)
         IN /\ SetCtx(r.c)
            /\ ret' = r.obj
            /\ lastCall' = Call("RegisterPackage", 0, 0)
    /\ nops' = nops + 1
    /\ UNCHANGED <<err, flagsSeen, toolVars>>

DoRegisterFunction ==
    /\ Len(Objects) < MaxObjects
    /\ \E p \in Addrs("Package"), name \in FuncNames, file \in FileNames, r \in Ranges :
         LET res == RegisterFunction(Ctx, p, name, file, r[1], r[2])
         IN /\ SetCtx(res.c)
            /\ ret' = res.obj
            /\ lastCall' = Call("RegisterFunction", p, 0)
    /\ nops' = nops + 1
    /\ UNCHANGED <<err, flagsSeen, toolVars>>

DoRegisterStatement ==
    /\ Len(Objects) < MaxObjects
    /\ \E f \in Addrs("Function"), r \in Ranges :
         LET res == RegisterStatement(Ctx, f, r[1], r[2])
         IN /\ SetCtx(res.c)
            /\ ret' = res.obj
            /\ lastCall' = Call("RegisterStatement", f, 0)
    /\ nops' = nops + 1
    /\ UNCHANGED <<err, flagsSeen, toolVars>>

DoEnter ==
    /\ nops < MaxOps
    /\ \E f \in Addrs("Function") :
         /\ SetCtx(Enter(Ctx, f))
         /\ lastCall' = Call("Enter", f, 0)
    /\ flagsSeen' = flagsSeen \cup {traceAll(Ctx)}
    /\ nops' = nops + 1
    /\ UNCHANGED <<ret, err, toolVars>>

DoLeave ==
    /\ nops < MaxOps
    /\ \E f \in Addrs("Function") :
         /\ SetCtx(Leave(Ctx, f))
         /\ lastCall' = Call("Leave", f, 0)
    /\ flagsSeen' = flagsSeen \cup {traceAll(Ctx)}
    /\ nops' = nops + 1
    /\ UNCHANGED <<ret, err, toolVars>>

DoAt ==
    /\ nops < MaxOps
    /\ \E s \in Addrs("Statement") :
         /\ SetCtx(At(Ctx, s))
         /\ lastCall' = Call("At", s, 0)
    /\ flagsSeen' = flagsSeen \cup {traceAll(Ctx)}
    /\ nops' = nops + 1
    /\ UNCHANGED <<ret, err, toolVars>>

\* ctx.TraceFlags = flags, as a program sets it between two calls.
SetTraceFlags ==
    /\ nops < MaxOps
    /\ \E flags \in {0, TraceAll} :
         /\ flags # TraceFlags
         /\ TraceFlags' = flags
    /\ lastCall' = Call("SetTraceFlags", 0, 0)
    /\ nops' = nops + 1
    /\ UNCHANGED <<heap, Objects, Tracer, out, ret, err, flagsSeen, goroutineVars, toolVars>>

Next ==
    \/ DoRegisterPackage
    \/ DoRegisterFunction
    \/ DoRegisterStatement
    \/ DoEnter
    \/ DoLeave
    \/ DoAt
    \/ SetTraceFlags

Spec == Init /\ [][Next]_vars

----------------------------------------------------------------------------
\* The claims about the registry driven by one goroutine.

Range(seq) == {seq[i] : i \in 1..Len(seq)}

RegisterOps == {"RegisterPackage", "RegisterFunction", "RegisterStatement"}

\* C1: after any sequential series of registrations on a fresh Context, the i-th
\* object registered (from 0) has uid i and Objects[i].Uid() = i; the registration
\* called last returned the object at the end of the table.
C1_UidsDense ==
    /\ Len(Objects) = Len(heap)
    /\ \A i \in 1..Len(Objects) : Objects[i] = i /\ heap[Objects[i]].uid = i - 1
    /\ lastCall.op \in RegisterOps => ret = Len(Objects) /\ heap[ret].uid = Len(Objects) - 1

C1_Witness ==
    /\ Len(Objects) >= 3
    /\ {heap[a].kind : a \in Range(Objects)} = {"Package", "Function", "Statement"}
    /\ lastCall.op = "RegisterStatement"

\* The structure of a package: names, files and offsets, in order, without uids
\* and counters.
StatementStruct(h, s) == [Start |-> h[s].Start, End |-> h[s].End]

FunctionStruct(h, f) ==
    [Name |-> h[f].Name, File |-> h[f].File, Start |-> h[f].Start, End |-> h[f].End,
     Statements |-> [i \in 1..Len(h[f].Statements) |-> StatementStruct(h, h[f].Statements[i])]]

PackageStruct(h, p) ==
    [Name |-> h[p].Name,
     Functions |-> [i \in 1..Len(h[p].Functions) |-> FunctionStruct(h, h[p].Functions[i])]]

Decoded == ParseTrace(Flatten(out))

DistinctPackageNames ==
    \A p, q \in Addrs("Package") : p # q => heap[p].Name # heap[q].Name

\* C7: the log of any registrations with pairwise distinct package names decodes
\* without error into packages with the names, functions and statements of the
\* source registry.
C7_RoundTripStructure ==
    (Tracer = "buf" /\ DistinctPackageNames) =>
        LET d == Decoded
        IN /\ ~d.err
           /\ Len(d.pkgs) = Cardinality(Addrs("Package"))
           /\ {PackageStruct(d.heap, p) : p \in Range(d.pkgs)}
                = {PackageStruct(heap, p) : p \in Addrs("Package")}

Counters(h, a) == [Entered |-> h[a].Entered, Left |-> h[a].Left, Reached |-> h[a].Reached]

Min(x, y) == IF x < y THEN x ELSE y

FirstOnly(c) ==
    [Entered |-> Min(c.Entered, 1), Left |-> Min(c.Left, 1), Reached |-> Min(c.Reached, 1)]

\* C8 as stated: whenever the log decodes, every decoded object has the counters
\* of the source object, under the default flags as well as under TraceAll.
C8_RoundTripCounters ==
    Tracer = "buf" =>
        LET d == Decoded
        IN ~d.err =>
             /\ Len(d.heap) = Len(heap)
             /\ \A a \in 1..Len(heap) : Counters(d.heap, a) = Counters(heap, a)

\* C8 amended: for a registry with pairwise distinct package names whose log
\* decodes, the decoded counters are the source counters when TraceAll was set at
\* every Enter, Leave and At, and are 1 for every counter that is not 0 (and 0
\* otherwise) when TraceAll was set at none of them.
C8_RoundTripCountersTraceAll ==
    (Tracer = "buf" /\ DistinctPackageNames) =>
        LET d == Decoded
        IN ~d.err =>
             /\ Len(d.heap) = Len(heap)
             /\ flagsSeen \subseteq {TRUE} =>
                  \A a \in 1..Len(heap) : Counters(d.heap, a) = Counters(heap, a)
             /\ flagsSeen \subseteq {FALSE} =>
                  \A a \in 1..Len(heap) : Counters(d.heap, a) = FirstOnly(Counters(heap, a))

C8_Witness ==
    /\ Tracer = "buf"
    /\ flagsSeen = {TRUE}
    /\ DistinctPackageNames
    /\ \E f \in Addrs("Function") :
         /\ heap[f].Entered = 2
         /\ LET d == Decoded IN ~d.err /\ d.heap[f].Entered = 2

\* The log after a call that brought a counter from old to old + 1 and, when it
\* logs, writes msg.
LogAfter(old, msg) ==
    IF Tracer = "nil" THEN out
    ELSE IF old = 0 \/ TraceFlags = TraceAll THEN Append(out, msg)
    ELSE out

\* C9: every Enter, Leave or At adds one to its counter; on a Context with a
\* Tracer the call writes one event when it takes the counter from 0 to 1 or
\* TraceAll is set at the time of the call, and writes nothing otherwise.
C9_FirstVisitTraced ==
    [][\A a \in 1..Len(heap) :
         /\ lastCall' = Call("Enter", a, 0) =>
              /\ heap' = [heap EXCEPT ![a].Entered = @ + 1]
              /\ out' = LogAfter(heap[a].Entered, enterString(heap[a].uid))
         /\ lastCall' = Call("Leave", a, 0) =>
              /\ heap' = [heap EXCEPT ![a].Left = @ + 1]
              /\ out' = LogAfter(heap[a].Left, leaveString(heap[a].uid))
         /\ lastCall' = Call("At", a, 0) =>
              /\ heap' = [heap EXCEPT ![a].Reached = @ + 1]
              /\ out' = LogAfter(heap[a].Reached, atString(heap[a].uid))]_vars

C9_Witness ==
    /\ Tracer = "buf"
    /\ TraceFlags = 0
    /\ flagsSeen = {FALSE}
    /\ \E f \in Addrs("Function") :
         /\ lastCall = Call("Enter", f, 0)
         /\ heap[f].Entered = 2
         /\ Cardinality({i \in 1..Len(out) : out[i] = enterString(heap[f].uid)}) = 1

----------------------------------------------------------------------------
\* Accumulate applied to two packages of one Context.
\*
\* The two packages are registered one after the other, as the tests of
\* Accumulate do.  The first has MaxFuncs functions or fewer, of MaxStmts
\* statements or fewer, all with the same name, file and offsets; the second is
\* registered in the same way, with a shape of its own, and differs from that in
\* one field at most (its site).  The counters of a package are multiples of a
\* count drawn for the package.

MaxFuncs == 2
MaxStmts == 2
MaxCount == 1

RECURSIVE SeqsUpTo(_, _)
\* The sequences of length n or less over the set S.
SeqsUpTo(S, n) ==
    IF n = 0 THEN {<<>>}
    ELSE LET shorter == SeqsUpTo(S, n - 1)
         IN shorter \cup {Append(q, x) : q \in {t \in shorter : Len(t) = n - 1}, x \in S}

\* A shape: the number of statements of each function of a package.
Shapes == SeqsUpTo(0..MaxStmts, MaxFuncs)

Site(what, i, j) == [what |-> what, i |-> i, j |-> j]

NoSite == Site("None", 0, 0)

SitesOf(shape) ==
    {NoSite, Site("PkgName", 0, 0)}
      \cup {Site(w, i, 0) : w \in {"FuncName", "FuncFile", "FuncStart", "FuncEnd"},
                            i \in 1..Len(shape)}
      \cup UNION {{Site(w, i, j) : w \in {"StmtStart", "StmtEnd"}, j \in 1..shape[i]} :
                  i \in 1..Len(shape)}

Alt(site, here, base, other) == IF site = here THEN other ELSE base

RECURSIVE BuildStatements(_, _, _, _, _, _, _)
\* f.RegisterStatement for the statements j..n of the i-th function, each then
\* reached count * (i + j) times.
BuildStatements(c, f, i, j, n, site, count) ==
    IF j > n THEN c
    ELSE LET r == RegisterStatement(c, f, Alt(site, Site("StmtStart", i, j), 0, 1),
                                          Alt(site, Site("StmtEnd", i, j), 1, 2))
             c1 == [r.c EXCEPT !.heap[r.obj].Reached = count * (i + j)]
         IN BuildStatements(c1, f, i, j + 1, n, site, count)

RECURSIVE BuildFunctions(_, _, _, _, _, _)
\* p.RegisterFunction for the functions i.. of a package of the given shape, each
\* then entered count * (i + 1) times and left count * i times.
BuildFunctions(c, p, i, shape, site, count) ==
    IF i > Len(shape) THEN c
    ELSE LET r == RegisterFunction(c, p, Alt(site, Site("FuncName", i, 0), <<"n">>, <<"q">>),
                                         Alt(site, Site("FuncFile", i, 0), <<"p">>, <<"q">>),
                                         Alt(site, Site("FuncStart", i, 0), 0, 1),
                                         Alt(site, Site("FuncEnd", i, 0), 1, 2))
             c1 == [r.c EXCEPT !.heap[r.obj].Entered = count * (i + 1),
                               !.heap[r.obj].Left = count * i]
         IN BuildFunctions(BuildStatements(c1, r.obj, i, 1, shape[i], site, count),
                           p, i + 1, shape, site, count)

BuildPackage(c, shape, site, count) ==
    LET r == RegisterPackage(c, Alt(site, Site("PkgName", 0, 0), <<"p">>, <<"q">>))
    IN BuildFunctions(r.c, r.obj, 1, shape, site, count)

InitAcc ==
    /\ \E shape1 \in Shapes, shape2 \in Shapes, count1 \in 0..MaxCount, count2 \in 0..MaxCount :
         \E site \in SitesOf(shape2) :
            LET c0 == Context(<<>>, <<>>, "nil", 0, <<>>)
                c1 == BuildPackage(c0, shape1, NoSite, count1)
                c2 == BuildPackage(c1, shape2, site, count2)
            IN heap = c2.heap /\ Objects = c2.Objects
    /\ Tracer = "nil"
    /\ TraceFlags = 0
    /\ out = <<>>
    /\ lastCall = Call("none", 0, 0)
    /\ ret = 0
    /\ err = "nil"
    /\ flagsSeen = {}
    /\ nops = 0
    /\ NoGoroutines
    /\ NoTools

\* x.Accumulate(y), called once on two objects of the same kind.
SetAcc(op, a, b, r) ==
    /\ nops = 0
    /\ heap' = r.heap
    /\ err' = r.err
    /\ lastCall' = Call(op, a, b)
    /\ nops' = nops + 1
    /\ UNCHANGED <<Objects, Tracer, TraceFlags, out, ret, flagsSeen, goroutineVars, toolVars>>

DoPackageAccumulate ==
    \E p \in Addrs("Package"), p2 \in Addrs("Package") :
        SetAcc("PackageAccumulate", p, p2, PackageAccumulate(heap, p, p2))

DoFunctionAccumulate ==
    \E f \in Addrs("Function"), f2 \in Addrs("Function") :
        SetAcc("FunctionAccumulate", f, f2, FunctionAccumulate(heap, f, f2))

DoStatementAccumulate ==
    \E s \in Addrs("Statement"), s2 \in Addrs("Statement") :
        SetAcc("StatementAccumulate", s, s2, StatementAccumulate(heap, s, s2))

NextAcc ==
    \/ DoPackageAccumulate
    \/ DoFunctionAccumulate
    \/ DoStatementAccumulate

SpecAcc == InitAcc /\ [][NextAcc]_vars

----------------------------------------------------------------------------
\* The claims about Accumulate.

AccumulateOps == {"PackageAccumulate", "FunctionAccumulate", "StatementAccumulate"}

AllCounters(h) == [a \in 1..Len(h) |-> Counters(h, a)]

\* The functions and statements reached from the package or function a.
FunctionsOf(h, a) == IF h[a].kind = "Package" THEN Range(h[a].Functions) ELSE {a}

StatementsOf(h, a) == UNION {Range(h[f].Statements) : f \in FunctionsOf(h, a)}

\* C3: whenever an Accumulate returns an error, also one found in a function or
\* statement that is not the first child, no counter of the destination has changed.
C3_CheckThenCommit ==
    [][(lastCall'.op \in AccumulateOps /\ err' # "nil") =>
          AllCounters(heap') = AllCounters(heap)]_vars

\* C4: Function.Accumulate returns an error and changes nothing when Name, File,
\* Start, End or the number of statements differ; Package.Accumulate when the names
\* or the numbers of functions differ; Statement.Accumulate when Start or End differ.
C4_MismatchRejected ==
    [][\A a, b \in 1..Len(heap) :
         /\ (/\ lastCall' = Call("FunctionAccumulate", a, b)
             /\ \/ heap[a].Name # heap[b].Name
                \/ heap[a].File # heap[b].File
                \/ heap[a].Start # heap[b].Start
                \/ heap[a].End # heap[b].End
                \/ Len(heap[a].Statements) # Len(heap[b].Statements))
              => (err' # "nil" /\ heap' = heap)
         /\ (/\ lastCall' = Call("PackageAccumulate", a, b)
             /\ \/ heap[a].Name # heap[b].Name
                \/ Len(heap[a].Functions) # Len(heap[b].Functions))
              => (err' # "nil" /\ heap' = heap)
         /\ (/\ lastCall' = Call("StatementAccumulate", a, b)
             /\ \/ heap[a].Start # heap[b].Start
                \/ heap[a].End # heap[b].End)
              => (err' # "nil" /\ heap' = heap)]_vars

C4_Witness ==
    /\ lastCall.op = "FunctionAccumulate"
    /\ err = "Number of statements do not match"
    /\ heap[lastCall.b].Entered > 0
    /\ heap[lastCall.a].Entered > 0

\* The package or function a of the heap h, structure and counters, without uids.
FunctionValue(h, f) ==
    [struct |-> FunctionStruct(h, f), Entered |-> h[f].Entered, Left |-> h[f].Left,
     Reached |-> [i \in 1..Len(h[f].Statements) |-> h[h[f].Statements[i]].Reached]]

Value(h, a) ==
    IF h[a].kind = "Package"
    THEN [Name |-> h[a].Name,
          Functions |-> [i \in 1..Len(h[a].Functions) |-> FunctionValue(h, h[a].Functions[i])]]
    ELSE FunctionValue(h, a)

Twice(c) == [Entered |-> 2 * c.Entered, Left |-> 2 * c.Left, Reached |-> 2 * c.Reached]

Struct(h, a) == IF h[a].kind = "Package" THEN PackageStruct(h, a) ELSE FunctionStruct(h, a)

\* C5: for a package or function x and a copy y of x with the same structure and
\* counters, x.Accumulate(y) returns nil, doubles every counter of x and leaves the
\* names, files, offsets and list lengths of x as they were.
C5_AccumulateCopyDoubles ==
    [][\A x, y \in 1..Len(heap) :
         (/\ lastCall' \in {Call("PackageAccumulate", x, y), Call("FunctionAccumulate", x, y)}
          /\ x # y
          /\ Value(heap, x) = Value(heap, y))
           => /\ err' = "nil"
              /\ \A a \in FunctionsOf(heap, x) \cup StatementsOf(heap, x) :
                    Counters(heap', a) = Twice(Counters(heap, a))
              /\ Struct(heap', x) = Struct(heap, x)
              /\ heap'[x].Name = heap[x].Name
              /\ heap'[x].Functions = heap[x].Functions
              /\ \A f \in FunctionsOf(heap, x) : heap'[f].Statements = heap[f].Statements]_vars

C5_Witness ==
    /\ lastCall.op = "PackageAccumulate"
    /\ err = "nil"
    /\ lastCall.a # lastCall.b
    /\ Struct(heap, lastCall.a) = Struct(heap, lastCall.b)
    /\ Len(heap[lastCall.a].Functions) = 2
    /\ \A i \in 1..2 :
         LET f == heap[lastCall.a].Functions[i]
             f2 == heap[lastCall.b].Functions[i]
         IN /\ heap[f2].Entered > 0
            /\ heap[f2].Left > 0
            /\ Counters(heap, f) = Twice(Counters(heap, f2))
            /\ Len(heap[f].Statements) = 2
            /\ \A j \in 1..2 :
                 /\ heap[heap[f2].Statements[j]].Reached > 0
                 /\ Counters(heap, heap[f].Statements[j])
                      = Twice(Counters(heap, heap[f2].Statements[j]))

\* C6: Package.Accumulate returns nil if and only if the two packages have the
\* same structure (names, files, offsets and list lengths, position by position),
\* whatever the uids and the counters.
C6_NilIffSameStructure ==
    [][\A p, p2 \in 1..Len(heap) :
         lastCall' = Call("PackageAccumulate", p, p2) =>
            ((err' = "nil") <=> (PackageStruct(heap, p) = PackageStruct(heap, p2)))]_vars

C6_Witness ==
    /\ lastCall.op = "PackageAccumulate"
    /\ err = "nil"
    /\ lastCall.a # lastCall.b
    /\ heap[lastCall.a].uid # heap[lastCall.b].uid
    /\ Len(heap[lastCall.a].Functions) = 2
    /\ \E i \in 1..2 :
         /\ heap[heap[lastCall.a].Functions[i]].Entered
              # heap[heap[lastCall.b].Functions[i]].Entered
         /\ Len(heap[heap[lastCall.a].Functions[i]].Statements) = 2

----------------------------------------------------------------------------
\* The registry called by several goroutines at once.
\*
\* Every goroutine makes one call.  A step is one access to the memory the
\* goroutines share: a read or a write of Context.Objects, of the Functions or
\* Statements of the parent, an atomic add, an operation of the mutex.  The
\* registrations take no lock before c.log, so their appends are a read of the
\* slice followed by a write of it.

NGoroutines == 2

Goroutines == 1..NGoroutines

NoLocals == [op |-> "none", obj |-> 0, self |-> 0, val |-> 0, loc |-> <<>>, msg |-> <<>>]

AllDone == \A t \in Goroutines : pc[t] = "done"

\* The slice an append stores after it read loc while the slice is cur by now:
\* loc with e appended, or with the element another goroutine has put in the same
\* place of the array since.
RaceAppend(loc, e, cur) ==
    {Append(loc, e)} \cup
      (IF Len(cur) > Len(loc) THEN {Append(loc, cur[Len(loc) + 1])} ELSE {})

InitConc ==
    /\ \E tracer \in {"nil", "buf"} :
         LET c0 == Context(<<>>, <<>>, tracer, 0, <<>>)
             c1 == RegisterPackage(c0, <<"p">>)
             c2 == RegisterFunction(c1.c, c1.obj, <<"n">>, <<"p">>, 0, 1)
             c3 == RegisterStatement(c2.c, c2.obj, 0, 1)
         IN /\ heap = c3.c.heap
            /\ Objects = c3.c.Objects
            /\ out = c3.c.out
            /\ Tracer = tracer
    /\ TraceFlags \in {0, TraceAll}
    /\ lastCall = Call("none", 0, 0)
    /\ ret = 0
    /\ err = "nil"
    /\ flagsSeen = {}
    /\ nops = 0
    /\ pc = [t \in Goroutines |-> "idle"]
    /\ locals = [t \in Goroutines |-> NoLocals]
    /\ mu = 0
    /\ NoTools

Goto(t, label) == pc' = [pc EXCEPT ![t] = label]

SharedUnchanged ==
    UNCHANGED <<Tracer, TraceFlags, lastCall, ret, err, flagsSeen, nops, toolVars>>

\* The first step of a registration: c.allocObject() and the new object.
\* obj is the package or function registered with (0 for RegisterPackage).
AllocStep(t, op, obj, new, msg) ==
    /\ pc[t] = "idle"
    /\ heap' = Append(heap, new)
    /\ locals' = [locals EXCEPT ![t] = [NoLocals EXCEPT !.op = op, !.obj = obj,
                                                         !.self = Len(heap) + 1,
                                                         !.val = new.uid, !.msg = msg]]
    /\ Goto(t, IF obj = 0 THEN "readObjects" ELSE "readChildren")
    /\ UNCHANGED <<Objects, out, mu>>
    /\ SharedUnchanged

CallRegisterPackage(t) ==
    \E name \in {<<"q">>} :
        LET uid == allocObject(Ctx)
        IN AllocStep(t, "RegisterPackage", 0, NewPackage(uid, name), PackageMsg(name, uid))

CallRegisterFunction(t) ==
    \E p \in Addrs("Package") :
        LET uid == allocObject(Ctx)
        IN AllocStep(t, "RegisterFunction", p, NewFunction(uid, <<"n">>, <<"p">>, 0, 1),
                     FunctionMsg(heap[p].uid, <<"n">>, <<"p">>, 0, 1, uid))

CallRegisterStatement(t) ==
    \E f \in Addrs("Function") :
        LET uid == allocObject(Ctx)
        IN AllocStep(t, "RegisterStatement", f, NewStatement(uid, 0, 1),
                     StatementMsg(heap[f].uid, 0, 1, uid))

\* p.Functions = append(p.Functions, f) and f.Statements = append(f.Statements, s):
\* the read.
ReadChildren(t) ==
    /\ pc[t] = "readChildren"
    /\ locals' = [locals EXCEPT ![t].loc =
                     IF locals[t].op = "RegisterFunction"
                     THEN heap[locals[t].obj].Functions
                     ELSE heap[locals[t].obj].Statements]
    /\ Goto(t, "writeChildren")
    /\ UNCHANGED <<heap, Objects, out, mu>>
    /\ SharedUnchanged

\* ... and the write.
WriteChildren(t) ==
    /\ pc[t] = "writeChildren"
    /\ LET l == locals[t]
       IN IF l.op = "RegisterFunction"
          THEN \E new \in RaceAppend(l.loc, l.self, heap[l.obj].Functions) :
                  heap' = [heap EXCEPT ![l.obj].Functions = new]
          ELSE \E new \in RaceAppend(l.loc, l.self, heap[l.obj].Statements) :
                  heap' = [heap EXCEPT ![l.obj].Statements = new]
    /\ Goto(t, "readObjects")
    /\ UNCHANGED <<Objects, out, mu, locals>>
    /\ SharedUnchanged

\* c.Objects = append(c.Objects, obj): the read.
ReadObjects(t) ==
    /\ pc[t] = "readObjects"
    /\ locals' = [locals EXCEPT ![t].loc = Objects]
    /\ Goto(t, "writeObjects")
    /\ UNCHANGED <<heap, Objects, out, mu>>
    /\ SharedUnchanged

\* ... and the write; c.log(msg) follows.
WriteObjects(t) ==
    /\ pc[t] = "writeObjects"
    /\ Objects' \in RaceAppend(locals[t].loc, locals[t].self, Objects)
    /\ Goto(t, "log")
    /\ UNCHANGED <<heap, out, mu, locals>>
    /\ SharedUnchanged

\* The first step of Enter, Leave and At: atomic.AddInt64 and the test on its
\* result and on traceAll().
AddStep(t, op, obj, new, msg) ==
    /\ pc[t] = "idle"
    /\ locals' = [locals EXCEPT ![t] = [NoLocals EXCEPT !.op = op, !.obj = obj,
                                                         !.val = new, !.msg = msg]]
    /\ Goto(t, IF shouldLog(new, Ctx) THEN "log" ELSE "done")
    /\ UNCHANGED <<Objects, out, mu>>
    /\ SharedUnchanged

CallEnter(t) ==
    \E f \in Addrs("Function") :
        LET new == AddInt64(heap[f].Entered)
        IN /\ heap' = [heap EXCEPT ![f].Entered = new]
           /\ AddStep(t, "Enter", f, new, enterString(heap[f].uid))

CallLeave(t) ==
    \E f \in Addrs("Function") :
        LET new == AddInt64(heap[f].Left)
        IN /\ heap' = [heap EXCEPT ![f].Left = new]
           /\ AddStep(t, "Leave", f, new, leaveString(heap[f].uid))

CallAt(t) ==
    \E s \in Addrs("Statement") :
        LET new == AddInt64(heap[s].Reached)
        IN /\ heap' = [heap EXCEPT ![s].Reached = new]
           /\ AddStep(t, "At", s, new, atString(heap[s].uid))

\* c.log: nothing without a Tracer, c.Lock() with one.
LogLock(t) ==
    /\ pc[t] = "log"
    /\ IF Tracer = "nil"
       THEN Goto(t, "done") /\ mu' = mu
       ELSE mu = 0 /\ mu' = t /\ Goto(t, "write")
    /\ UNCHANGED <<heap, Objects, out, locals>>
    /\ SharedUnchanged

\* write(c.Tracer, bytes)
LogWrite(t) ==
    /\ pc[t] = "write"
    /\ out' = Append(out, locals[t].msg)
    /\ Goto(t, "unlock")
    /\ UNCHANGED <<heap, Objects, mu, locals>>
    /\ SharedUnchanged

\* c.Unlock()
LogUnlock(t) ==
    /\ pc[t] = "unlock"
    /\ mu' = 0
    /\ Goto(t, "done")
    /\ UNCHANGED <<heap, Objects, out, locals>>
    /\ SharedUnchanged

NextConc ==
    \E t \in Goroutines :
        \/ CallRegisterPackage(t)
        \/ CallRegisterFunction(t)
        \/ CallRegisterStatement(t)
        \/ ReadChildren(t)
        \/ WriteChildren(t)
        \/ ReadObjects(t)
        \/ WriteObjects(t)
        \/ CallEnter(t)
        \/ CallLeave(t)
        \/ CallAt(t)
        \/ LogLock(t)
        \/ LogWrite(t)
        \/ LogUnlock(t)

SpecConc == InitConc /\ [][NextConc]_vars

----------------------------------------------------------------------------
\* The claims about concurrent calls.

\* C2: for every interleaving of concurrent registrations on one Context, the
\* uids assigned are pairwise distinct and the object table ends up holding every
\* registered object exactly once, with the uids 0..n-1.
C2_AtomicRegistration ==
    AllDone =>
        /\ \A a, b \in 1..Len(heap) : a # b => heap[a].uid # heap[b].uid
        /\ Len(Objects) = Len(heap)
        /\ Range(Objects) = 1..Len(heap)
        /\ \A i \in 1..Len(Objects) : heap[Objects[i]].uid = i - 1

\* The number of goroutines that called op on the object a.
Calls(op, a) == Cardinality({t \in Goroutines : locals[t].op = op /\ locals[t].obj = a})

\* The number of writes of msg in the log.
Written(msg) == Cardinality({i \in 1..Len(out) : out[i] = msg})

\* C10: once N concurrent Enter (Leave, At) calls on an object whose counter was 0
\* have returned, the counter is N, and with a Tracer and TraceAll unset the log
\* holds one event of that object and operation, if N > 0.
C10_NoLostUpdate ==
    AllDone =>
        \A a \in 1..Len(heap) :
            /\ heap[a].Entered = Calls("Enter", a)
            /\ heap[a].Left = Calls("Leave", a)
            /\ heap[a].Reached = Calls("At", a)
            /\ (Tracer = "buf" /\ TraceFlags = 0) =>
                 /\ Written(enterString(heap[a].uid)) = Min(1, Calls("Enter", a))
                 /\ Written(leaveString(heap[a].uid)) = Min(1, Calls("Leave", a))
                 /\ Written(atString(heap[a].uid)) = Min(1, Calls("At", a))

C10_Witness ==
    /\ AllDone
    /\ Tracer = "buf"
    /\ TraceFlags = 0
    /\ \E f \in Addrs("Function") :
         /\ Calls("Enter", f) = NGoroutines
         /\ heap[f].Entered = NGoroutines
         /\ Written(enterString(heap[f].uid)) = 1

----------------------------------------------------------------------------
\* ParseTrace on the log files a program can hand it: any lines of the form the
\* registry writes, with any object refs.

MaxLines == 3
MaxUid == 2

Uids == 0..MaxUid

RegistrationLines ==
    {PackageMsg(name, u) : name \in {<<"p">>, <<"q">>}, u \in Uids}
      \cup {FunctionMsg(r, <<"n">>, <<"p">>, 0, 1, u) : r \in Uids, u \in Uids}
      \cup {StatementMsg(r, 0, 1, u) : r \in Uids, u \in Uids}

CallLines ==
    {enterString(u) : u \in Uids} \cup {leaveString(u) : u \in Uids}
      \cup {atString(u) : u \in Uids}

InitTrace ==
    /\ heap = <<>>
    /\ Objects = <<>>
    /\ Tracer = "nil"
    /\ TraceFlags = 0
    /\ out = <<>>
    /\ lastCall = Call("none", 0, 0)
    /\ ret = 0
    /\ err = "nil"
    /\ flagsSeen = {}
    /\ nops = 0
    /\ NoGoroutines
    /\ NoTools

\* The program that writes the log appends one line to it.
WriteLine(line) ==
    /\ lastCall.op # "ParseTrace"
    /\ Len(out) < MaxLines
    /\ out' = Append(out, line)
    /\ lastCall' = Call("Write", 0, 0)
    /\ UNCHANGED <<heap, Objects, Tracer, TraceFlags, ret, err, flagsSeen, nops,
                   goroutineVars, toolVars>>

WriteRegistration == \E line \in RegistrationLines : WriteLine(line)

WriteCall == \E line \in CallLines : WriteLine(line)

\* ParseTrace(path), called once on the file written so far.
DoParseTrace ==
    /\ lastCall.op # "ParseTrace"
    /\ LET r == ParseTrace(Flatten(out))
       IN /\ heap' = r.heap
          /\ tracePkgs' = r.pkgs
          /\ err' = IF r.err THEN "error" ELSE "nil"
    /\ lastCall' = Call("ParseTrace", 0, 0)
    /\ nops' = nops + 1
    /\ UNCHANGED <<Objects, Tracer, TraceFlags, out, ret, flagsSeen, goroutineVars,
                   reportPackages, cacheFindFuncs, profiles, cmdVars>>

NextTrace ==
    \/ WriteRegistration
    \/ WriteCall
    \/ DoParseTrace

SpecTrace == InitTrace /\ [][NextTrace]_vars

----------------------------------------------------------------------------
\* The claims about ParseTrace.

\* The object ref a line calls a method of, and the ref a registration line ends with.
HasReceiver(line) == line[1] = "gocovObject"
Receiver(line) == DigitVal(line[2])
ResultUid(line) == DigitVal(line[Len(line) - 1])

\* Line k calls a method of an object ref that no registration line before it produced.
Dangling(k) ==
    /\ HasReceiver(out[k])
    /\ ~\E j \in 1..(k - 1) :
          out[j] \in RegistrationLines /\ ResultUid(out[j]) = Receiver(out[k])

\* C11: ParseTrace returns an error and no packages when a line of the log calls an
\* operation on an object ref whose uid no earlier registration line of the log produced.
C11_UnregisteredRefRejected ==
    (lastCall.op = "ParseTrace" /\ \E k \in 1..Len(out) : Dangling(k))
        => (err # "nil" /\ tracePkgs = <<>>)

C11_Witness ==
    /\ lastCall.op = "ParseTrace"
    /\ Len(out) = 2
    /\ out[1] = PackageMsg(<<"p">>, 0)
    /\ out[2] = enterString(1)
    /\ Dangling(2)
    /\ err # "nil"

RegistrationsOf(file) == SelectSeq(file, LAMBDA line : line \in RegistrationLines)

\* The registration lines carry the uids 0, 1, 2, ... in order of appearance.
InOrder(file) ==
    LET regs == RegistrationsOf(file)
    IN \A k \in 1..Len(regs) : ResultUid(regs[k]) = k - 1

\* C12: ParseTrace returns an error and no packages when the uid in the result ref of
\* a registration line differs from the uid the decoding registry assigns to that
\* registration: an accepted log carries the uids 0, 1, 2, ... on its registration
\* lines, in order of appearance.
C12_UidMismatchRejected ==
    (lastCall.op = "ParseTrace" /\ ~InOrder(out)) => (err # "nil" /\ tracePkgs = <<>>)

C12_Witness ==
    /\ lastCall.op = "ParseTrace"
    /\ Len(out) = 2
    /\ out[1] = PackageMsg(<<"p">>, 0)
    /\ out[2] = PackageMsg(<<"q">>, 2)
    /\ err # "nil"
    /\ tracePkgs = <<>>

\* The log decodes, and the merge of two of its packages of the same name fails.
MergeFails ==
    LET p == parse(NewParser(Flatten(out)))
    IN /\ ~p.panicked
       /\ \E i, j \in 1..Len(p.packages) :
            /\ i < j
            /\ p.context.heap[p.packages[i]].Name = p.context.heap[p.packages[j]].Name
            /\ PackageAccumulate(p.context.heap, p.packages[i], p.packages[j]).err # "nil"

\* C19: when ParseTrace merges two packages of the same name found in one trace and
\* the merge fails with a structural mismatch, ParseTrace returns an error.
C19_MergeFailureReported ==
    (lastCall.op = "ParseTrace" /\ MergeFails) => err # "nil"

----------------------------------------------------------------------------
\* The report (Report.AddPackage).

MaxAdds == 4

ReportNames == {<<"n">>, <<"p">>, <<"q">>, <<"p", "q">>}

\* (r *Report) AddPackage on the packages rp: the packages afterwards, and whether
\* the call panics.
AddPackage(h, rp, p) ==
    LET n == Len(rp)
        i == Search([x \in 0..(n - 1) |-> StrGeq(h[rp[x + 1]].Name, h[rp[x + 1]].Name)], 0, n)
    IN IF i < n /\ h[rp[i + 1]].Name = h[p].Name
       THEN [packages |-> rp, panicked |-> TRUE]
       ELSE [packages |-> InsertAt(rp, i, p), panicked |-> FALSE]

\* NewReport()
InitReport ==
    /\ heap = <<>>
    /\ Objects = <<>>
    /\ Tracer = "nil"
    /\ TraceFlags = 0
    /\ out = <<>>
    /\ lastCall = Call("none", 0, 0)
    /\ ret = 0
    /\ err = "nil"
    /\ flagsSeen = {}
    /\ nops = 0
    /\ NoGoroutines
    /\ NoTools

\* r.AddPackage(p) with a package p of some name; a panic ends the program.
DoAddPackage ==
    /\ err = "nil"
    /\ nops < MaxAdds
    /\ \E name \in ReportNames :
         LET h == Append(heap, NewPackage(0, name))
             p == Len(h)
             r == AddPackage(h, reportPackages, p)
         IN /\ heap' = h
            /\ reportPackages' = r.packages
            /\ err' = IF r.panicked THEN "panic" ELSE "nil"
            /\ lastCall' = Call("AddPackage", p, 0)
    /\ nops' = nops + 1
    /\ UNCHANGED <<Objects, Tracer, TraceFlags, out, ret, flagsSeen, goroutineVars,
                   tracePkgs, cacheFindFuncs, profiles, cmdVars>>

\* (r *Report) Clear
DoClear ==
    /\ err = "nil"
    /\ nops < MaxAdds
    /\ reportPackages # <<>>
    /\ heap' = <<>>
    /\ reportPackages' = <<>>
    /\ lastCall' = Call("Clear", 0, 0)
    /\ nops' = nops + 1
    /\ UNCHANGED <<Objects, Tracer, TraceFlags, out, ret, err, flagsSeen, goroutineVars,
                   tracePkgs, cacheFindFuncs, profiles, cmdVars>>

NextReport ==
    \/ DoAddPackage
    \/ DoClear

SpecReport == InitReport /\ [][NextReport]_vars

----------------------------------------------------------------------------
\* The claims about the report.  heap holds the packages passed to AddPackage since
\* the report was created or cleared.

DistinctNamesAdded ==
    \A a, b \in 1..Len(heap) : a # b => heap[a].Name # heap[b].Name

\* C13: after any sequence of AddPackage calls with pairwise distinct package names,
\* in any order, the package list of the report is sorted ascending by Name and holds
\* every added package exactly once.
C13_ReportSorted ==
    DistinctNamesAdded =>
        /\ \A i \in 1..(Len(reportPackages) - 1) :
              StrLess(heap[reportPackages[i]].Name, heap[reportPackages[i + 1]].Name)
        /\ \A a \in 1..Len(heap) :
              Cardinality({i \in 1..Len(reportPackages) : reportPackages[i] = a}) = 1

\* C14: AddPackage of a package whose Name a package of the report already has is
\* rejected, wherever that package is in the list: the report never holds two
\* packages of the same Name.
C14_NoDuplicateNames ==
    /\ \A i, j \in 1..Len(reportPackages) :
          i # j => heap[reportPackages[i]].Name # heap[reportPackages[j]].Name
    /\ (lastCall.op = "AddPackage" /\ ~DistinctNamesAdded) => err = "panic"

----------------------------------------------------------------------------
\* itoa on the values of an int.

MaxItoa == 120

\* The values of TestItoa, the values around them and around the ends of int.
ItoaInputs ==
    (-MaxItoa..MaxItoa)
      \cup {MaxInt, MaxInt - 1, MinInt, MinInt + 1, MinInt + 2}
      \cup {1000000000, 999999999, -1000000000, -999999999, 2147483640, -2147483640}

InitItoa ==
    /\ heap = <<>>
    /\ Objects = <<>>
    /\ Tracer = "nil"
    /\ TraceFlags = 0
    /\ out = <<>>
    /\ lastCall = Call("none", 0, 0)
    /\ ret = 0
    /\ err = "nil"
    /\ flagsSeen = {}
    /\ nops = 0
    /\ NoGoroutines
    /\ NoTools

\* itoa(v): out holds the string returned, err whether the call panicked.
DoItoa ==
    \E v \in ItoaInputs :
        LET r == itoa(v)
        IN /\ out' = IF r = Panic THEN <<>> ELSE <<r>>
           /\ err' = IF r = Panic THEN "panic" ELSE "nil"
           /\ lastCall' = Call("itoa", v, 0)
           /\ UNCHANGED <<heap, Objects, Tracer, TraceFlags, ret, flagsSeen, nops,
                          goroutineVars, toolVars>>

NextItoa == DoItoa

SpecItoa == InitItoa /\ [][NextItoa]_vars

RECURSIVE Pow10(_)
Pow10(n) == IF n = 0 THEN 1 ELSE 10 * Pow10(n - 1)

\* s is the decimal representation of v: a '-' for a negative v, then the digits of
\* the magnitude of v, each at its place, without a leading zero.
IsDecimalOf(s, v) ==
    LET d == IF v < 0 THEN Tail(s) ELSE s
        m == IF v < 0 THEN -v ELSE v
    IN /\ s # <<>>
       /\ v < 0 => Head(s) = "-"
       /\ d # <<>>
       /\ Len(d) <= 10
       /\ Len(d) > 1 => d[1] # "0"
       /\ \A i \in 1..Len(d) : d[i] = DigitChars[((m \div Pow10(Len(d) - i)) % 10) + 1]
       /\ m \div Pow10(Len(d) - 1) < 10

\* C17: for every int v other than the minimum int, itoa(v) is the decimal
\* representation of v (a leading '-' for negatives, no leading zeros), the maximum
\* int and the minimum int + 1 included; itoa(minimum int) panics.
C17_ItoaDecimal ==
    lastCall.op = "itoa" =>
        IF lastCall.a = MinInt THEN err = "panic"
        ELSE err = "nil" /\ Len(out) = 1 /\ IsDecimalOf(out[1], lastCall.a)

C17_Witness ==
    /\ lastCall.op = "itoa"
    /\ lastCall.a = MinInt + 1
    /\ out = <<<<"-", "2", "1", "4", "7", "4", "8", "3", "6", "4", "7">>>>

----------------------------------------------------------------------------
\* The conversion of cover profiles (package convert).

MaxLine == 3
MaxCol == 1
MaxTop == 2
MaxBlocks == 2

\* The positions of a source file: <<line, column>>.
Positions == {<<l, c>> : l \in 1..MaxLine, c \in 0..MaxCol}

PosLess(a, b) == a[1] < b[1] \/ (a[1] = b[1] /\ a[2] < b[2])
PosLeq(a, b) == a = b \/ PosLess(a, b)

\* token.Position.Offset, in a file whose lines hold MaxCol + 1 bytes each.
Offset(pos) == (pos[1] - 1) * (MaxCol + 1) + pos[2]

\* extent{...}, of the source text from start to end.
Extent(start, end) ==
    [startOffset |-> Offset(start), startLine |-> start[1], startCol |-> start[2],
     endOffset |-> Offset(end), endLine |-> end[1], endCol |-> end[2]]

\* &FuncExtent{name: name, extent: ..., stmts: stmts}
FuncExtent(name, start, end, stmts) ==
    [name |-> name, extent |-> Extent(start, end), stmts |-> stmts]

\* cover.ProfileBlock
ProfileBlock(start, end, count) ==
    [StartLine |-> start[1], StartCol |-> start[2], EndLine |-> end[1], EndCol |-> end[2],
     Count |-> count]

\* The source texts a statement or a block can cover.
Spans == {sp \in Positions \X Positions : PosLess(sp[1], sp[2])}

\* The bodies of a function declaration: statements one after the other.
Bodies ==
    {b \in UNION {[1..n -> Spans] : n \in 1..MaxTop} :
        \A k \in 1..(Len(b) - 1) : PosLeq(b[k][2], b[k + 1][1])}

\* The source files: one function declaration that spans the file; at most one of
\* its statements (litAt) holds a function literal, whose body is one statement (inner).
Sources ==
    {[body |-> b, litAt |-> 0, inner |-> <<>>] : b \in Bodies}
      \cup UNION {{[body |-> b, litAt |-> k, inner |-> sp] :
                      k \in {i \in 1..Len(b) : PosLess(b[i][1], sp[1]) /\ PosLeq(sp[2], b[i][2])}} :
                  b \in Bodies, sp \in Spans}

\* fmt.Sprintf("@%d:%d", start.Line, start.Column)
literalName(start) == <<"@">> \o itoa(start[1]) \o <<":">> \o itoa(start[2])

\* findFuncs: ast.Walk calls Visit on the declaration, which appends its extent with
\* the statements of its body (VisitStmt), and then on the literals inside it.
findFuncs(src) ==
    LET decl == FuncExtent(<<"n">>, <<1, 0>>, <<MaxLine, MaxCol>>,
                           [k \in 1..Len(src.body) |-> Extent(src.body[k][1], src.body[k][2])])
        sp == src.body[src.litAt]
    IN IF src.litAt = 0 THEN <<decl>>
       ELSE <<decl, FuncExtent(literalName(sp[1]), sp[1], sp[2],
                               <<Extent(src.inner[1], src.inner[2])>>)>>

\* The two conditions of the scan of convertProfile, on a block b and a statement s.
pastEndLoose(b, s) ==
    b.StartLine > s.endLine \/ (b.StartLine = s.endLine /\ b.StartCol > s.endCol)

\* "Past the end of the statement"
pastEnd(b, s) ==
    b.StartLine > s.endLine \/ (b.StartLine = s.endLine /\ b.StartCol >= s.endCol)

\* "Before the beginning of the statement"
beforeBeginning(b, s) ==
    b.EndLine < s.startLine \/ (b.EndLine = s.startLine /\ b.EndCol <= s.startCol)

RECURSIVE scanBlocks(_, _, _)
\* for i, b := range blocks, for the statement s: the blocks left for the next
\* statement and what is added to s.Reached.
scanBlocks(blocks, i, s) ==
    IF i > Len(blocks) THEN [blocks |-> blocks, add |-> 0]
    ELSE IF pastEnd(blocks[i], s)
      THEN [blocks |-> SubSeq(blocks, i, Len(blocks)), add |-> 0]
    ELSE IF beforeBeginning(blocks[i], s) THEN scanBlocks(blocks, i + 1, s)
    ELSE [blocks |-> blocks, add |-> blocks[i].Count]

RECURSIVE attribute(_, _, _, _)
\* for _, s := range stmts, from the k-th statement on.
attribute(h, stmts, k, blocks) ==
    IF k > Len(stmts) THEN h
    ELSE LET r == scanBlocks(blocks, 1, stmts[k].ext)
         IN attribute([h EXCEPT ![stmts[k].addr].Reached = @ + r.add], stmts, k + 1, r.blocks)

RECURSIVE newStatements(_, _, _, _)
\* for _, se := range fe.stmts: the statements of the function f.
newStatements(h, f, ses, stmts) ==
    IF ses = <<>> THEN [heap |-> h, stmts |-> stmts]
    ELSE LET se == Head(ses)
             a == Len(h) + 1
             h1 == Append(h, NewStatement(0, se.startOffset, se.endOffset))
         IN newStatements([h1 EXCEPT ![f].Statements = Append(@, a)], f, Tail(ses),
                          Append(stmts, [addr |-> a, ext |-> se]))

\* f := &gocov.Function{...} for the extent fe, with its statements.
newFunction(h, file, fe, stmts) ==
    LET f == Len(h) + 1
        h1 == Append(h, NewFunction(0, fe.name, file, fe.extent.startOffset, fe.extent.endOffset))
        r == newStatements(h1, f, fe.stmts, stmts)
    IN [heap |-> r.heap, stmts |-> r.stmts, f |-> f]

RECURSIVE newFunctions(_, _, _, _, _)
\* for _, fe := range extents
newFunctions(h, pkg, file, extents, stmts) ==
    IF extents = <<>> THEN [heap |-> h, stmts |-> stmts]
    ELSE LET r == newFunction(h, file, Head(extents), stmts)
         IN newFunctions([r.heap EXCEPT ![pkg].Functions = Append(@, r.f)], pkg, file,
                         Tail(extents), r.stmts)

\* c.packages[pkgpath]: the package of that name (0: none).
lookupPackage(h, pkgpath) ==
    IF \E a \in 1..Len(h) : h[a].kind = "Package" /\ h[a].Name = pkgpath
    THEN CHOOSE a \in 1..Len(h) : h[a].kind = "Package" /\ h[a].Name = pkgpath
    ELSE 0

\* (c *converter) convertProfile, run by one goroutine from start to end.
convertProfile(h, cache, profile) ==
    LET pkg == lookupPackage(h, profile.Package)
        r == newFunctions(h, pkg, profile.FileName, cache[profile.FileName], <<>>)
    IN IF pkg = 0 THEN [heap |-> h, err |-> "not found package"]
       ELSE [heap |-> attribute(r.heap, r.stmts, 1, profile.Blocks), err |-> "nil"]

----------------------------------------------------------------------------
\* convertProfile on one profile: any source file of Sources, any list of blocks.

\* The hit counts of the blocks.
Counts == {1, 3}

Blocks == {ProfileBlock(sp[1], sp[2], c) : sp \in Spans, c \in Counts}

BlockLists == UNION {[1..n -> Blocks] : n \in 0..MaxBlocks}

\* &cover.Profile{FileName: ..., Blocks: ...} of the file of that name in the package
\* findFile finds for it.
Profile(file, blocks) == [FileName |-> file, Package |-> <<"p">>, Blocks |-> blocks]

\* The packages of the converter once fillAllPackages has run for every profile.
PackagesFilled == <<NewPackage(0, <<"p">>)>>

\* The state when ConvertProfiles starts the calls of convertProfile.
InitProf ==
    /\ \E src \in Sources, bl \in BlockLists :
         /\ cacheFindFuncs = [file \in {<<"n">>} |-> findFuncs(src)]
         /\ profiles = <<Profile(<<"n">>, bl)>>
    /\ heap = PackagesFilled
    /\ Objects = <<>>
    /\ Tracer = "nil"
    /\ TraceFlags = 0
    /\ out = <<>>
    /\ lastCall = Call("none", 0, 0)
    /\ ret = 0
    /\ err = "nil"
    /\ flagsSeen = {}
    /\ nops = 0
    /\ NoGoroutines
    /\ tracePkgs = <<>>
    /\ reportPackages = <<>>
    /\ NoCmd

\* converter.convertProfile(p, moduleName), for the one profile.
DoConvertProfile ==
    /\ lastCall.op = "none"
    /\ LET r == convertProfile(heap, cacheFindFuncs, profiles[1])
       IN /\ heap' = r.heap
          /\ err' = r.err
    /\ lastCall' = Call("convertProfile", 1, 0)
    /\ nops' = nops + 1
    /\ UNCHANGED <<Objects, Tracer, TraceFlags, out, ret, flagsSeen, goroutineVars, toolVars>>

NextProf == DoConvertProfile

SpecProf == InitProf /\ [][NextProf]_vars

----------------------------------------------------------------------------
\* The claims about the attribution of blocks to statements.

RECURSIVE Concat(_)
Concat(seqs) == IF seqs = <<>> THEN <<>> ELSE Head(seqs) \o Concat(Tail(seqs))

\* The statements of the file, in the order convertProfile goes through them: their
\* extents, and their objects in the heap h.
StmtExtents == Concat([i \in 1..Len(cacheFindFuncs[<<"n">>]) |-> cacheFindFuncs[<<"n">>][i].stmts])

StmtObjects(h) == Concat([i \in 1..Len(h[1].Functions) |-> h[h[1].Functions[i]].Statements])

ReachedList(h) == [k \in 1..Len(StmtObjects(h)) |-> h[StmtObjects(h)[k]].Reached]

Converted == lastCall.op = "convertProfile"

BlockStart(b) == <<b.StartLine, b.StartCol>>
BlockEnd(b) == <<b.EndLine, b.EndCol>>
StmtStart(e) == <<e.startLine, e.startCol>>
StmtEnd(e) == <<e.endLine, e.endCol>>

\* The block b and the statement e have text in common.
Overlaps(b, e) == PosLess(BlockStart(b), StmtEnd(e)) /\ PosLess(StmtStart(e), BlockEnd(b))

BlocksSorted(bl) ==
    \A i, j \in 1..Len(bl) : i < j => PosLeq(BlockStart(bl[i]), BlockStart(bl[j]))

MinOf(S) == CHOOSE x \in S : \A y \in S : x <= y

\* The Count of the first block of bl that overlaps e (0: no block does).
FirstOverlap(bl, e) ==
    LET J == {j \in 1..Len(bl) : Overlaps(bl[j], e)}
    IN IF J = {} THEN 0 ELSE bl[MinOf(J)].Count

\* C15: the Reached count of a statement is the Count of the first block, in the
\* order of the (sorted) block list, that overlaps the statement; later overlapping
\* blocks are not added, and a statement no block overlaps keeps Reached = 0.
C15_FirstOverlappingBlock ==
    (Converted /\ BlocksSorted(profiles[1].Blocks)) =>
        \A k \in 1..Len(StmtExtents) :
            ReachedList(heap)[k] = FirstOverlap(profiles[1].Blocks, StmtExtents[k])

NonOverlapping(bl) ==
    \A i, j \in 1..Len(bl) :
        i # j => ~(PosLess(BlockStart(bl[i]), BlockEnd(bl[j]))
                    /\ PosLess(BlockStart(bl[j]), BlockEnd(bl[i])))

Reorderings(bl) ==
    {[i \in 1..Len(bl) |-> bl[q[i]]] :
        q \in {f \in [1..Len(bl) -> 1..Len(bl)] : \A i, j \in 1..Len(bl) : i # j => f[i] # f[j]}}

\* C16: for any set of non-overlapping blocks of a file, every permutation of the
\* block list yields the same Reached value for every statement.
C16_OrderIndependent ==
    (Converted /\ NonOverlapping(profiles[1].Blocks)) =>
        \A bl \in Reorderings(profiles[1].Blocks) :
            ReachedList(convertProfile(PackagesFilled, cacheFindFuncs,
                                       Profile(<<"n">>, bl)).heap) = ReachedList(heap)

\* What the scan gives the first statement e of the file when it skips the blocks
\* that skip(b, e) holds of and stops at a block that stop(b, e) holds of.
ScanResult(bl, e, skip(_, _), stop(_, _)) ==
    LET J == {j \in 1..Len(bl) : ~skip(bl[j], e)}
    IN IF J = {} THEN 0
       ELSE IF stop(bl[MinOf(J)], e) THEN 0
       ELSE bl[MinOf(J)].Count

EndsBefore(b, e) == PosLess(BlockEnd(b), StmtStart(e))
StartsAfter(b, e) == PosLess(StmtEnd(e), BlockStart(b))
EndsAtOrBefore(b, e) == PosLeq(BlockEnd(b), StmtStart(e))
StartsAtOrAfter(b, e) == PosLeq(StmtEnd(e), BlockStart(b))

\* C20 as claimed: a block is skipped as lying before a statement only if it ends
\* strictly before the start of the statement, and the scan stops only at a block that
\* starts strictly after the end of the statement; a block that ends at the start of
\* the statement or starts at its end counts as overlapping.
C20_TouchingOverlaps ==
    Converted =>
        ReachedList(heap)[1] = ScanResult(profiles[1].Blocks, StmtExtents[1], EndsBefore, StartsAfter)

\* C20 as amended: a block is skipped as lying before a statement if it ends at or
\* before the start of the statement, and the scan stops at a block that starts at or
\* after the end of the statement; a block that ends at the start of the statement or
\* starts at its end does not count as overlapping.
C20_TouchingNotOverlapping ==
    Converted =>
        ReachedList(heap)[1] =
            ScanResult(profiles[1].Blocks, StmtExtents[1], EndsAtOrBefore, StartsAtOrAfter)

C20_Witness ==
    /\ Converted
    /\ Len(profiles[1].Blocks) = 2
    /\ BlockEnd(profiles[1].Blocks[1]) = StmtStart(StmtExtents[1])
    /\ BlockStart(profiles[1].Blocks[2]) = StmtEnd(StmtExtents[1])
    /\ ReachedList(heap)[1] = 0

----------------------------------------------------------------------------
\* ConvertProfiles: one goroutine per profile (errGr.Go), each running convertProfile
\* on the package the files are in.

NProfiles == 2

Workers == 1..NProfiles

\* The file of the t-th profile.
FileOf(t) == [k \in 1..t |-> "n"]

\* The source files: a function of one statement, which may hold a function literal.
SmallSources ==
    LET sp == <<<<1, 0>>, <<MaxLine, MaxCol>>>>
    IN {[body |-> <<sp>>, litAt |-> 0, inner |-> <<>>],
        [body |-> <<sp>>, litAt |-> 1, inner |-> <<<<1, 1>>, <<2, 0>>>>]}

SmallBlockLists == {<<>>} \cup {<<ProfileBlock(<<1, 0>>, <<2, 0>>, c)>> : c \in Counts}

NoConvLocals == [pkg |-> 0, i |-> 1, f |-> 0, stmts |-> <<>>]

\* The state when ConvertProfiles has started a goroutine for every profile.
InitConv ==
    /\ \E srcs \in [Workers -> SmallSources], bls \in [Workers -> SmallBlockLists] :
         /\ cacheFindFuncs = [file \in {FileOf(t) : t \in Workers} |-> findFuncs(srcs[Len(file)])]
         /\ profiles = [t \in Workers |-> Profile(FileOf(t), bls[t])]
    /\ heap = PackagesFilled
    /\ Objects = <<>>
    /\ Tracer = "nil"
    /\ TraceFlags = 0
    /\ out = <<>>
    /\ lastCall = Call("none", 0, 0)
    /\ ret = 0
    /\ err = "nil"
    /\ flagsSeen = {}
    /\ nops = 0
    /\ pc = [t \in Workers |-> "start"]
    /\ locals = [t \in Workers |-> NoConvLocals]
    /\ mu = 0
    /\ tracePkgs = <<>>
    /\ reportPackages = <<>>
    /\ NoCmd

ConvUnchanged ==
    UNCHANGED <<Objects, Tracer, TraceFlags, out, lastCall, ret, flagsSeen, nops, toolVars>>

ExtentsOf(t) == cacheFindFuncs[profiles[t].FileName]

\* pkg, ok := c.packages[pkgpath]; extents := cacheFindFuncs[file]
ConvStart(t) ==
    /\ pc[t] = "start"
    /\ LET pkg == lookupPackage(heap, profiles[t].Package)
       IN IF pkg = 0
          THEN /\ err' = "not found package"
               /\ Goto(t, "done")
               /\ UNCHANGED locals
          ELSE /\ locals' = [locals EXCEPT ![t].pkg = pkg]
               /\ Goto(t, IF ExtentsOf(t) = <<>> THEN "attribute" ELSE "newFunction")
               /\ UNCHANGED err
    /\ UNCHANGED <<heap, mu>>
    /\ ConvUnchanged

\* f := &gocov.Function{...} and its statements, for the next extent.
ConvNewFunction(t) ==
    /\ pc[t] = "newFunction"
    /\ LET r == newFunction(heap, profiles[t].FileName, ExtentsOf(t)[locals[t].i], locals[t].stmts)
       IN /\ heap' = r.heap
          /\ locals' = [locals EXCEPT ![t].f = r.f, ![t].stmts = r.stmts]
    /\ Goto(t, "lock")
    /\ UNCHANGED <<err, mu>>
    /\ ConvUnchanged

\* pkg.Mu.Lock()
ConvLock(t) ==
    /\ pc[t] = "lock"
    /\ mu = 0
    /\ mu' = t
    /\ Goto(t, "append")
    /\ UNCHANGED <<heap, err, locals>>
    /\ ConvUnchanged

\* pkg.Functions = append(pkg.Functions, f)
ConvAppend(t) ==
    /\ pc[t] = "append"
    /\ heap' = [heap EXCEPT ![locals[t].pkg].Functions = Append(@, locals[t].f)]
    /\ Goto(t, "unlock")
    /\ UNCHANGED <<err, locals, mu>>
    /\ ConvUnchanged

\* pkg.Mu.Unlock(), and on to the next extent.
ConvUnlock(t) ==
    /\ pc[t] = "unlock"
    /\ mu' = 0
    /\ locals' = [locals EXCEPT ![t].i = @ + 1]
    /\ Goto(t, IF locals[t].i + 1 > Len(ExtentsOf(t)) THEN "attribute" ELSE "newFunction")
    /\ UNCHANGED <<heap, err>>
    /\ ConvUnchanged

\* The scan of the blocks of the profile for the statements of the file.
ConvAttribute(t) ==
    /\ pc[t] = "attribute"
    /\ heap' = attribute(heap, locals[t].stmts, 1, profiles[t].Blocks)
    /\ Goto(t, "done")
    /\ UNCHANGED <<err, locals, mu>>
    /\ ConvUnchanged

NextConv ==
    \E t \in Workers :
        \/ ConvStart(t)
        \/ ConvNewFunction(t)
        \/ ConvLock(t)
        \/ ConvAppend(t)
        \/ ConvUnlock(t)
        \/ ConvAttribute(t)

SpecConv == InitConv /\ [][NextConv]_vars

----------------------------------------------------------------------------
\* The claim about ConvertProfiles.

RECURSIVE convertAll(_, _)
\* The calls of convertProfile one after the other, in the order of the profiles.
convertAll(h, k) ==
    IF k > Len(profiles) THEN h
    ELSE convertAll(convertProfile(h, cacheFindFuncs, profiles[k]).heap, k + 1)

\* C18: for a fixed set of profiles and source files, ConvertProfiles yields the same
\* Package graph on every run, with the same order of Functions in each Package,
\* whatever the scheduling of the goroutines: the graph of the run in which the
\* goroutines run one after the other.
C18_ConversionDeterministic ==
    (\A t \in Workers : pc[t] = "done") =>
        Value(heap, 1) = Value(convertAll(PackagesFilled, 1), 1)

----------------------------------------------------------------------------
\* Syntax trees (go/ast) and the discovery of extents in them (package convert).

\* A node: its kind (the go/ast type), its name (of a FuncDecl) and its children in
\* the order of the source text, which is the order ast.Walk visits them in.
Node(kind, kids) == [kind |-> kind, name |-> <<>>, kids |-> kids]

RECURSIVE Size(_), SizeUpTo(_, _)
\* The bytes of source text of the first i of the nodes kids.
SizeUpTo(kids, i) == IF i = 0 THEN 0 ELSE SizeUpTo(kids, i - 1) + Size(kids[i])

\* node.End() - node.Pos(): a byte before and a byte after the children.
Size(n) == 2 + SizeUpTo(n.kids, Len(n.kids))

\* n.kids[i].Pos(), for the node n at pos.
KidPos(n, pos, i) == pos + 1 + SizeUpTo(n.kids, i - 1)

\* v.fset.Position(p), in a file whose lines hold MaxCol + 1 bytes each.
Position(p) == <<p \div (MaxCol + 1) + 1, p % (MaxCol + 1)>>

\* start, end := v.fset.Position(s.Pos()), v.fset.Position(s.End()); se := &StmtExtent{...}
StmtExtent(s, pos) == Extent(Position(pos), Position(pos + Size(s)))

\* The switch s.(type) in the loop of VisitStmt, when only simple statements get
\* an extent.
registeredSimpleOnly(s) == s.kind \in {"ExprStmt", "AssignStmt"}

\* The switch s.(type) in the loop of VisitStmt: the statements that get an extent.
registered(s) == s.kind \notin {"CaseClause", "CommClause", "BlockStmt"}

RECURSIVE VisitStmt(_, _), VisitStatements(_, _, _), VisitKids(_, _, _)
\* v.VisitStmt on each of the children of s from the i-th on.
VisitKids(s, pos, i) ==
    IF i > Len(s.kids) THEN <<>>
    ELSE VisitStmt(s.kids[i], KidPos(s, pos, i)) \o VisitKids(s, pos, i + 1)

\* for i := 0; i < len(*statements); i++, from the i-th statement of the list of s on.
VisitStatements(s, pos, i) ==
    IF i > Len(s.kids) THEN <<>>
    ELSE (IF registered(s.kids[i]) THEN <<StmtExtent(s.kids[i], KidPos(s, pos, i))>>
          ELSE <<>>)
           \o VisitStmt(s.kids[i], KidPos(s, pos, i))
           \o VisitStatements(s, pos, i + 1)

\* The else branch e of an if statement: an *ast.IfStmt is put in a block made for it,
\* whose list is visited; an *ast.BlockStmt is visited as it is.
VisitElse(e, pos) ==
    IF e.kind = "IfStmt" THEN <<StmtExtent(e, pos)>> \o VisitStmt(e, pos)
    ELSE VisitStmt(e, pos)

\* (v *StmtVisitor) VisitStmt: what it appends to v.function.stmts. The children of
\* an IfStmt are its Body and its Else, those of a ForStmt its Init and its Body.
VisitStmt(s, pos) ==
    CASE s.kind \in {"BlockStmt", "CaseClause", "CommClause"} -> VisitStatements(s, pos, 1)
      [] s.kind = "IfStmt" ->
           VisitStmt(s.kids[1], KidPos(s, pos, 1))
             \o (IF Len(s.kids) > 1 THEN VisitElse(s.kids[2], KidPos(s, pos, 2)) ELSE <<>>)
      [] s.kind \in {"ForStmt", "LabeledStmt", "RangeStmt", "SelectStmt", "SwitchStmt",
                     "TypeSwitchStmt"} -> VisitKids(s, pos, 1)
      [] OTHER -> <<>>

\* functionName(n), or the name made for a literal.
VisitName(n, pos) == IF n.kind = "FuncDecl" THEN n.name ELSE literalName(Position(pos))

\* (v *FuncVisitor) Visit that takes no function literal.
VisitDeclsOnly(n, pos) ==
    IF n.kind = "FuncDecl"
    THEN <<FuncExtent(n.name, Position(pos), Position(pos + Size(n)),
                      VisitStmt(n.kids[1], KidPos(n, pos, 1)))>>
    ELSE <<>>

\* (v *FuncVisitor) Visit: what it appends to v.funcs for the node n.
Visit(n, pos) ==
    IF n.kind \in {"FuncLit", "FuncDecl"}
    THEN <<FuncExtent(VisitName(n, pos), Position(pos), Position(pos + Size(n)),
                      VisitStmt(n.kids[1], KidPos(n, pos, 1)))>>
    ELSE <<>>

RECURSIVE Walk(_, _), WalkKids(_, _, _)
\* ast.Walk(visitor, n) on each of the children of n from the i-th on.
WalkKids(n, pos, i) ==
    IF i > Len(n.kids) THEN <<>>
    ELSE Walk(n.kids[i], KidPos(n, pos, i)) \o WalkKids(n, pos, i + 1)

\* ast.Walk(visitor, n): the node, then its children in depth-first order.
Walk(n, pos) == Visit(n, pos) \o WalkKids(n, pos, 1)

\* findFuncs on the parsed file: visitor.funcs.
findFuncsIn(file) == Walk(file, 0)

----------------------------------------------------------------------------
\* findFuncs on the source files of a bounded shape.

MaxList == 2

Leaf == Node("ExprStmt", <<>>)
Block(list) == Node("BlockStmt", list)
FuncLit(body) == Node("FuncLit", <<body>>)
FuncDecl(name, body) == [kind |-> "FuncDecl", name |-> name, kids |-> <<body>>]

\* A statement that calls a function literal.
LitStmt(body) == Node("ExprStmt", <<FuncLit(body)>>)

\* The statements without statements of their own, and those that hold the
\* statement s in the ways the language allows.
Holders(s) ==
    {Block(<<s>>), LitStmt(Block(<<s>>)),
     Node("IfStmt", <<Block(<<s>>)>>),
     Node("IfStmt", <<Block(<<Leaf>>), Block(<<s>>)>>),
     Node("IfStmt", <<Block(<<Leaf>>), Node("IfStmt", <<Block(<<s>>)>>)>>),
     Node("ForStmt", <<Block(<<s>>)>>),
     Node("ForStmt", <<Node("AssignStmt", <<>>), Block(<<s>>)>>),
     Node("RangeStmt", <<Block(<<s>>)>>),
     Node("SwitchStmt", <<Block(<<Node("CaseClause", <<s>>)>>)>>)}

Stmts1 == {Leaf} \cup Holders(Leaf)

Stmts2 ==
    Stmts1 \cup UNION {{Node("IfStmt", <<Block(<<s>>)>>), LitStmt(Block(<<s>>))} : s \in Stmts1}

StmtLists == UNION {[1..n -> Stmts2] : n \in 1..MaxList}

\* The files: one function declaration, after a variable declaration that holds a
\* function literal or after none.
Files ==
    {Node("File", <<FuncDecl(<<"n">>, Block(l))>>) : l \in StmtLists}
      \cup {Node("File", <<Node("GenDecl", <<FuncLit(Block(<<Leaf>>))>>),
                           FuncDecl(<<"n">>, Block(l))>>) : l \in StmtLists}

InitExtent ==
    /\ parsedFile \in Files
    /\ NoRun
    /\ heap = <<>>
    /\ Objects = <<>>
    /\ Tracer = "nil"
    /\ TraceFlags = 0
    /\ out = <<>>
    /\ lastCall = Call("none", 0, 0)
    /\ ret = 0
    /\ err = "nil"
    /\ flagsSeen = {}
    /\ nops = 0
    /\ NoGoroutines
    /\ tracePkgs = <<>>
    /\ reportPackages = <<>>
    /\ cacheFindFuncs = <<>>
    /\ profiles = <<>>

\* findFuncs(name), on the file parsed.
DoFindFuncs ==
    /\ lastCall.op = "none"
    /\ cacheFindFuncs' = [file \in {<<"n">>} |-> findFuncsIn(parsedFile)]
    /\ lastCall' = Call("findFuncs", 0, 0)
    /\ nops' = nops + 1
    /\ UNCHANGED <<heap, Objects, Tracer, TraceFlags, out, ret, err, flagsSeen,
                   goroutineVars, tracePkgs, reportPackages, profiles, cmdVars>>

NextExtent == DoFindFuncs

SpecExtent == InitExtent /\ [][NextExtent]_vars

----------------------------------------------------------------------------
\* The claims about the discovery of extents.

RECURSIVE PathsOf(_)
\* The nodes of the tree n, each named by the indexes of the children that lead to it.
PathsOf(n) ==
    {<<>>} \cup UNION {{<<i>> \o q : q \in PathsOf(n.kids[i])} : i \in 1..Len(n.kids)}

RECURSIVE NodeAt(_, _)
NodeAt(n, q) == IF q = <<>> THEN n ELSE NodeAt(n.kids[Head(q)], Tail(q))

RECURSIVE PosAt(_, _, _)
PosAt(n, pos, q) ==
    IF q = <<>> THEN pos ELSE PosAt(n.kids[Head(q)], KidPos(n, pos, Head(q)), Tail(q))

KindAt(q) == NodeAt(parsedFile, q).kind

\* The source text of the node at q, from its first byte to after its last.
ExtentAt(q) == StmtExtent(NodeAt(parsedFile, q), PosAt(parsedFile, 0, q))

IsPrefix(q, r) == Len(q) <= Len(r) /\ SubSeq(r, 1, Len(q)) = q

Parent(r) == SubSeq(r, 1, Len(r) - 1)

FuncPaths == {q \in PathsOf(parsedFile) : KindAt(q) \in {"FuncDecl", "FuncLit"}}

\* The node at r is part of the body of the function at q and of no function
\* literal inside that body.
InBodyOf(q, r) ==
    /\ IsPrefix(q, r) /\ Len(r) > Len(q) + 1
    /\ \A k \in (Len(q) + 1)..(Len(r) - 1) : KindAt(SubSeq(r, 1, k)) # "FuncLit"

\* The node at r is an element of a statement list: of a block or of the body of a
\* case clause, or it is the if statement that follows an else.
InStatementList(r) ==
    \/ KindAt(Parent(r)) \in {"BlockStmt", "CaseClause", "CommClause"}
    \/ KindAt(Parent(r)) = "IfStmt" /\ r[Len(r)] = 2 /\ KindAt(r) = "IfStmt"

SimpleKinds == {"ExprStmt", "AssignStmt"}

CompoundKinds ==
    {"IfStmt", "ForStmt", "RangeStmt", "SwitchStmt", "TypeSwitchStmt", "SelectStmt"}

\* The extents findFuncs returned.
Found == cacheFindFuncs[<<"n">>]

\* The extents found for the function at q.
FoundFor(q) == {i \in 1..Len(Found) : Found[i].extent = ExtentAt(q)}

Enclosed(q) == \E k \in 0..(Len(q) - 1) : KindAt(SubSeq(q, 1, k)) = "FuncDecl"

\* The innermost function around the node at q.
EnclosingFunc(q) ==
    CHOOSE p \in FuncPaths :
        /\ IsPrefix(p, q) /\ p # q
        /\ \A x \in FuncPaths : (IsPrefix(x, q) /\ x # q) => Len(x) <= Len(p)

\* The statements of the body of the function at q that have an extent.
WithExtent(q) ==
    {x \in PathsOf(parsedFile) :
        /\ InBodyOf(q, x) /\ InStatementList(x)
        /\ KindAt(x) \notin {"BlockStmt", "CaseClause", "CommClause"}}

----------------------------------------------------------------------------
\* The instrumenter of the gocov command (gocov/instrument.go).

RECURSIVE Located(_, _), LocatedKids(_, _, _)
LocatedKids(n, pos, i) ==
    IF i > Len(n.kids) THEN <<>>
    ELSE <<Located(n.kids[i], KidPos(n, pos, i))>> \o LocatedKids(n, pos, i + 1)

\* The tree the parser returns for the node n at pos: every node holds its
\* token.Pos, the offset of its first byte plus one.
Located(n, pos) ==
    [kind |-> n.kind, name |-> n.name, pos |-> pos + 1, kids |-> LocatedKids(n, pos, 1)]

\* v.fset.Position(s.Pos()).Line
Line(s) == Position(s.pos - 1)[1]

\* A node made by the instrumenter: it has no position (token.NoPos).
Made(kind, name) == [kind |-> kind, name |-> name, pos |-> 0, kids |-> <<>>]

\* stmt := &ast.ExprStmt{X: makeCall(fmt.Sprint(stmtObj, ".At"))}
AtCall(c, stmtObj) == Made("ExprStmt", String(c.heap[stmtObj].uid) \o <<".", "At">>)

\* if _, caseClause := s.(*ast.CaseClause); !caseClause
instrumented(s) == s.kind # "CaseClause"

RECURSIVE visitList(_, _, _, _)
\* b.List = append(b.List[:i], append(item, b.List[i:]...)...); i++, with the
\* statement r.obj just registered, and the rest of the loop.
insertAt(r, f, list, i) == visitList(r.c, f, InsertAt(list, i - 1, AtCall(r.c, r.obj)), i + 2)

\* for i := 0; i < len(b.List); i++ in stmtVisitor.Visit, from list[i] on: the
\* registry and the list afterwards.
visitList(c, f, list, i) ==
    IF i > Len(list) THEN [c |-> c, list |-> list]
    ELSE IF instrumented(list[i])
      THEN insertAt(RegisterStatement(c, f, Line(list[i]), Line(list[i])), f, list, i)
    ELSE visitList(c, f, list, i + 1)

RECURSIVE walkStmt(_, _, _), walkStmtKids(_, _, _, _)
\* The walk goes on after the i-th child of n, which the walk has left as r.n.
walkedKid(r, f, n, i) == walkStmtKids(r.c, f, [n EXCEPT !.kids[i] = r.n], i + 1)

\* ast.Walk with the stmtVisitor on the children of n from the i-th on.
walkStmtKids(c, f, n, i) ==
    IF i > Len(n.kids) THEN [c |-> c, n |-> n]
    ELSE walkedKid(walkStmt(c, f, n.kids[i]), f, n, i)

\* The walk of the children of the block n once Visit has changed its list.
walkVisited(r, f, n) == walkStmtKids(r.c, f, [n EXCEPT !.kids = r.list], 1)

\* ast.Walk(&stmtVisitor{...}, n): (v *stmtVisitor) Visit on n, then its children.
walkStmt(c, f, n) ==
    IF n.kind = "BlockStmt" THEN walkVisited(visitList(c, f, n.kids, 1), f, n)
    ELSE walkStmtKids(c, f, n, 1)

RECURSIVE walkFunc(_, _, _), walkFuncKids(_, _, _, _)
walkedFuncKid(r, pkg, n, i) == walkFuncKids(r.c, pkg, [n EXCEPT !.kids[i] = r.n], i + 1)

\* ast.Walk with the funcVisitor on the children of n from the i-th on.
walkFuncKids(c, pkg, n, i) ==
    IF i > Len(n.kids) THEN [c |-> c, n |-> n]
    ELSE walkedFuncKid(walkFunc(c, pkg, n.kids[i]), pkg, n, i)

\* The walk of the declaration n with the stmtVisitor Visit returned for the
\* function r.obj.
walkDecl(r, n) == walkStmtKids(r.c, r.obj, n, 1)

\* ast.Walk(&funcVisitor{state}, n): (v *funcVisitor) Visit on n, then its children.
walkFunc(c, pkg, n) ==
    IF n.kind = "FuncDecl"
    THEN walkDecl(RegisterFunction(c, pkg, n.name, <<"n">>, Line(n), Line(n)), n)
    ELSE walkFuncKids(c, pkg, n, 1)

RECURSIVE statementDecls(_, _, _)
\* for _, stmt := range fn.Statements: the declarations of the statement variables.
statementDecls(h, stmts, i) ==
    IF i > Len(stmts) THEN <<>>
    ELSE <<Made("GenDecl", String(h[stmts[i]].uid))>> \o statementDecls(h, stmts, i + 1)

RECURSIVE functionDecls(_, _, _)
\* for _, fn := range state.functions: the declarations of the function variables,
\* each followed by those of its statements.
functionDecls(h, fns, i) ==
    IF i > Len(fns) THEN <<>>
    ELSE <<Made("GenDecl", String(h[fns[i]].uid))>>
           \o statementDecls(h, h[fns[i]].Statements, 1)
           \o functionDecls(h, fns, i + 1)

\* The "gocov" import, put first when functions were registered and the file does
\* not import the package.
withImport(h, pkg, decls) ==
    IF h[pkg].Functions # <<>>
         /\ ~\E i \in 1..Len(decls) : decls[i].kind = "GenDecl" /\ decls[i].name = <<"gocov">>
    THEN <<Made("GenDecl", <<"gocov">>)>> \o decls
    ELSE decls

\* instrumentFile after the walk r of the file: the variable declarations are put
\* after the first declaration of the file, and the import before it.
declared(r, pkg) ==
    [c |-> r.c,
     n |-> [r.n EXCEPT !.kids =
              withImport(r.c.heap, pkg,
                  IF r.n.kids = <<>>
                  THEN <<Made("GenDecl", String(r.c.heap[pkg].uid))>>
                         \o functionDecls(r.c.heap, r.c.heap[pkg].Functions, 1)
                  ELSE <<Head(r.n.kids), Made("GenDecl", String(r.c.heap[pkg].uid))>>
                         \o functionDecls(r.c.heap, r.c.heap[pkg].Functions, 1)
                         \o Tail(r.n.kids))]]

\* instrumentFile once the package r.obj is registered.
instrumentRegistered(r, file) == declared(walkFunc(r.c, r.obj, file), r.obj)

\* (in *instrumenter) instrumentFile, for the first file of its package.
instrumentFile(c, file) == instrumentRegistered(RegisterPackage(c, <<"p">>), file)

----------------------------------------------------------------------------
\* instrumentFile on the source files of Files.

InitInstr ==
    /\ \E file \in Files : parsedFile = Located(file, 0)
    /\ NoRun
    /\ heap = <<>>
    /\ Objects = <<>>
    /\ Tracer = "nil"
    /\ TraceFlags = 0
    /\ out = <<>>
    /\ lastCall = Call("none", 0, 0)
    /\ ret = 0
    /\ err = "nil"
    /\ flagsSeen = {}
    /\ nops = 0
    /\ NoGoroutines
    /\ tracePkgs = <<>>
    /\ reportPackages = <<>>
    /\ cacheFindFuncs = <<>>
    /\ profiles = <<>>

\* in.instrumentFile(f, fset): the registry of the gocov command and the tree of
\* the file afterwards.
DoInstrumentFile ==
    /\ lastCall.op = "none"
    /\ LET r == instrumentFile(Ctx, parsedFile)
       IN /\ SetCtx(r.c)
          /\ parsedFile' = r.n
    /\ lastCall' = Call("instrumentFile", 0, 0)
    /\ nops' = nops + 1
    /\ UNCHANGED <<ret, err, flagsSeen, goroutineVars, tracePkgs, reportPackages,
                   cacheFindFuncs, profiles, runVars>>

NextInstr == DoInstrumentFile

SpecInstr == InitInstr /\ [][NextInstr]_vars

----------------------------------------------------------------------------
\* The claim about the instrumented tree.

\* A statement the instrumenter made: the call of At of a handle.
IsAtCall(s) == s.kind = "ExprStmt" /\ s.pos = 0

\* A simple statement of the source.
IsSimple(s) == s.kind \in SimpleKinds /\ s.pos # 0

\* The statement s of the list is preceded by one call of At and no more, and the
\* handle called is a statement registered for the line of s.
PrecededByItsCall(list, i) ==
    /\ i > 1
    /\ IsAtCall(list[i - 1])
    /\ i > 2 => ~IsAtCall(list[i - 2])
    /\ \E a \in 1..Len(heap) :
          /\ heap[a].kind = "Statement"
          /\ heap[a].Start = Line(list[i])
          /\ list[i - 1].name = String(heap[a].uid) \o <<".", "At">>

\* The statements of the source in the list, in the order of the list.
SourceOrder(list) ==
    \A i, j \in 1..Len(list) :
        (i < j /\ list[i].pos # 0 /\ list[j].pos # 0) => list[i].pos < list[j].pos

\* The statement lists inside function declarations: the lists of the blocks and
\* the bodies of the case clauses.
ListsInFunctions ==
    {q \in PathsOf(parsedFile) :
        /\ KindAt(q) \in {"BlockStmt", "CaseClause"}
        /\ \E k \in 0..(Len(q) - 1) : KindAt(SubSeq(q, 1, k)) = "FuncDecl"}

\* C23: after instrumentFile, every simple statement of a function, in the list of a
\* block or in the body of a case clause at any depth, is preceded in its list by
\* exactly one call of At of a handle registered for it, and the statements of the
\* source keep their order.
C23_EveryStatementPreceded ==
    lastCall.op = "instrumentFile" =>
        \A q \in ListsInFunctions :
            LET list == NodeAt(parsedFile, q).kids
            IN /\ SourceOrder(list)
               /\ \A i \in 1..Len(list) : IsSimple(list[i]) => PrecededByItsCall(list, i)

----------------------------------------------------------------------------
\* The log of concurrent calls and the decoder.

\* Every goroutine called a method of an object whose registration had returned
\* before the goroutines started (or RegisterPackage, a method of the context).
CallsOnRegistered ==
    \A t \in Goroutines :
        locals[t].obj = 0 \/ \E i \in 1..Len(Objects) : Objects[i] = locals[t].obj /\ i <= 3

\* C24: for every interleaving of concurrent registrations and Enter, Leave and At
\* calls on one Context with a tracer, the log written is one the decoder accepts:
\* ParseTrace returns no error for it.
C24_LogDecodable ==
    (AllDone /\ Tracer = "buf" /\ CallsOnRegistered) => ~ParseTrace(Flatten(out)).err

----------------------------------------------------------------------------
\* gocov test: the test binaries of the instrumented packages and their trace.

\* The registry of the gocov command is empty and nothing was called.
NoRegistry ==
    /\ heap = <<>>
    /\ Objects = <<>>
    /\ Tracer = "nil"
    /\ TraceFlags = 0
    /\ out = <<>>
    /\ lastCall = Call("none", 0, 0)
    /\ ret = 0
    /\ err = "nil"
    /\ flagsSeen = {}
    /\ nops = 0
    /\ NoGoroutines

registryVars == <<heap, Objects, Tracer, TraceFlags, out, ret, err, flagsSeen, nops,
                  goroutineVars>>

NPackages == 3
MaxEvents == 2

\* The test binaries go test runs, one for each instrumented package.
TestBinaries == 1..NPackages

\* const gocovOutPrefix: the name GOCOVOUT has in the environment of go test, and so
\* of every test binary.
gocovOutPrefix == <<"gocov.out">>

\* The i-th line test binary b logs.
Event(b, i) == [proc |-> b, n |-> i]

\* A line of zero bytes: what a file holds below a write past its end.
Hole == [proc |-> 0, n |-> 0]

\* syscall.Open(path, O_WRONLY|O_CREAT|O_TRUNC): the directory afterwards.
Open(dir, path) ==
    [n \in (DOMAIN dir) \cup {path} |-> IF n = path THEN <<>> ELSE dir[n]]

\* syscall.Write on a descriptor opened without O_APPEND: the line goes to the
\* offset of the descriptor.  (Offsets count lines.)
WriteAt(lines, off, l) ==
    IF off < Len(lines)
    THEN [lines EXCEPT ![off + 1] = l]
    ELSE lines \o [i \in 1..(off - Len(lines)) |-> Hole] \o <<l>>

Running == {b \in TestBinaries : testProcs[b].state = "running"}

InitTest ==
    /\ NoRegistry
    /\ parsedFile = <<>>
    /\ tracePkgs = <<>>
    /\ reportPackages = <<>>
    /\ cacheFindFuncs = <<>>
    /\ profiles = <<>>
    /\ NoFill
    /\ NoPkg
    /\ NoDeps
    /\ tempDir = <<>>
    /\ testProcs = [b \in TestBinaries |-> [state |-> "ready", off |-> 0, logged |-> 0]]
    /\ testP \in 1..NPackages

\* go test starts the test binary of a package, at most -p of them at a time; the
\* binary runs init() of package gocov, which opens the file GOCOVOUT names.
StartTest(b) ==
    /\ lastCall.op = "none"
    /\ testProcs[b].state = "ready"
    /\ Cardinality(Running) < testP
    /\ tempDir' = Open(tempDir, gocovOutPrefix)
    /\ testProcs' = [testProcs EXCEPT ![b] = [state |-> "running", off |-> 0, logged |-> 0]]
    /\ UNCHANGED <<registryVars, lastCall, parsedFile, tracePkgs, reportPackages,
                   cacheFindFuncs, profiles, testP, fillVars, pkgVars,
                   depsVars>>

\* A test binary logs a line: Context.log writes it to Default.Tracer.
TestLog(b) ==
    /\ testProcs[b].state = "running"
    /\ testProcs[b].logged < MaxEvents
    /\ LET t == testProcs[b]
       IN /\ tempDir' = [tempDir EXCEPT ![gocovOutPrefix] =
                            WriteAt(@, t.off, Event(b, t.logged + 1))]
          /\ testProcs' = [testProcs EXCEPT ![b] =
                              [t EXCEPT !.off = @ + 1, !.logged = @ + 1]]
    /\ UNCHANGED <<registryVars, lastCall, parsedFile, tracePkgs, reportPackages,
                   cacheFindFuncs, profiles, testP, fillVars, pkgVars,
                   depsVars>>

\* A test binary exits; it has registered its package, so it has logged.
TestExit(b) ==
    /\ testProcs[b].state = "running"
    /\ testProcs[b].logged >= 1
    /\ testProcs' = [testProcs EXCEPT ![b].state = "exited"]
    /\ UNCHANGED <<registryVars, lastCall, parsedFile, tracePkgs, reportPackages,
                   cacheFindFuncs, profiles, tempDir, testP, fillVars,
                   pkgVars, depsVars>>

\* go test has returned: instrumentAndTest lists the directory and decodes every file
\* whose name starts with gocovOutPrefix.
ReadTraces ==
    /\ lastCall.op = "none"
    /\ \A b \in TestBinaries : testProcs[b].state = "exited"
    /\ lastCall' = Call("instrumentAndTest", 0, 0)
    /\ UNCHANGED <<registryVars, parsedFile, tracePkgs, reportPackages,
                   cacheFindFuncs, profiles, testVars, fillVars, pkgVars,
                   depsVars>>

NextTest ==
    \/ \E b \in TestBinaries : StartTest(b)
    \/ \E b \in TestBinaries : TestLog(b)
    \/ \E b \in TestBinaries : TestExit(b)
    \/ ReadTraces

SpecTest == InitTest /\ [][NextTest]_vars

\* The lines test binary b logged.
Logged(b) == [i \in 1..testProcs[b].logged |-> Event(b, i)]

\* C25: when gocov test runs the test binaries of several packages, the trace
\* decoded for a test binary holds the lines of that binary and no others: no
\* binary truncates the trace of another and no file interleaves two binaries.
C25_TracePerProcess ==
    lastCall.op = "instrumentAndTest" =>
        \A b \in TestBinaries : \E n \in DOMAIN tempDir : tempDir[n] = Logged(b)

----------------------------------------------------------------------------
\* The fill phase of ConvertProfiles: a producer goroutine sends tasks over funcsChan,
\* worker goroutines run them and send their results over errChan, a goroutine
\* closes errChan when the workers are done, and ConvertProfiles ranges over errChan.
\* Both channels are unbuffered: a send is one step with the receive that takes it.

NFillWorkers == 2
NFillFiles == 3

FillWorkers == 1..NFillWorkers

\* The source files of the profiles; the last one is alone in its directory.
FillFiles == 1..NFillFiles

FillDir(f) == IF f = NFillFiles THEN 2 ELSE 1

\* The profiles cover.ParseProfiles returns: one for each file, in the order of the
\* file names.
RECURSIVE ascending(_, _)
ascending(fs, from) ==
    IF from > NFillFiles THEN <<>>
    ELSE (IF from \in fs THEN <<from>> ELSE <<>>) \o ascending(fs, from + 1)

FillProfiles == {ascending(fs, 1) : fs \in (SUBSET FillFiles) \ {{}}}

\* The tasks the loop of the producer sends for the profiles from the i-th on:
\* fillFindFuncs for a file not in processedProfiles, fillAllPackages for a directory
\* not in processedDirs.  fillFindFuncs returns an error for a file it cannot parse.
RECURSIVE producerTasks(_, _, _, _, _)
producerTasks(ps, i, processedProfiles, processedDirs, unparsable) ==
    IF i > Len(ps) THEN <<>>
    ELSE LET f == ps[i]
             dir == FillDir(f)
         IN (IF f \in processedProfiles THEN <<>>
             ELSE <<[fn |-> "fillFindFuncs", key |-> <<"file", f>>,
                     err |-> f \in unparsable]>>)
            \o (IF dir \in processedDirs THEN <<>>
                ELSE <<[fn |-> "fillAllPackages", key |-> <<"pkg", dir>>,
                        err |-> FALSE]>>)
            \o producerTasks(ps, i + 1, processedProfiles \cup {f},
                             processedDirs \cup {dir}, unparsable)

NoTask == [fn |-> "none", key |-> <<>>, err |-> FALSE]

InitFill ==
    /\ NoRegistry
    /\ parsedFile = <<>>
    /\ tracePkgs = <<>>
    /\ reportPackages = <<>>
    /\ cacheFindFuncs = <<>>
    /\ profiles = <<>>
    /\ NoTest
    /\ NoPkg
    /\ NoDeps
    /\ \E ps \in FillProfiles, unparsable \in SUBSET FillFiles :
           fillTasks = producerTasks(ps, 1, {}, {}, unparsable)
    /\ producerPc = "loop"
    /\ workers = [w \in FillWorkers |-> [pc |-> "range", f |-> NoTask]]
    /\ funcsChan = "open"
    /\ errChan = "open"
    /\ wg = NFillWorkers
    /\ waiterPc = "wait"
    /\ convertPc = "range"
    /\ filled = {}

fillUnchanged == <<heap, Objects, Tracer, TraceFlags, out, lastCall, ret, err,
                   flagsSeen, nops, pc, locals, tracePkgs, reportPackages,
                   cacheFindFuncs, profiles, parsedFile, testVars, pkgVars,
                   depsVars>>

\* funcsChan <- func() error {...}, taken by the range of worker w.
ProducerSend(w) ==
    /\ producerPc = "loop"
    /\ fillTasks # <<>>
    /\ workers[w].pc = "range"
    /\ workers' = [workers EXCEPT ![w] = [pc |-> "call", f |-> Head(fillTasks)]]
    /\ fillTasks' = Tail(fillTasks)
    /\ UNCHANGED <<fillUnchanged, mu, producerPc, funcsChan, errChan, wg, waiterPc,
                   convertPc, filled>>

\* close(funcsChan), after the loop: the producer goroutine ends.
ProducerClose ==
    /\ producerPc = "loop"
    /\ fillTasks = <<>>
    /\ funcsChan' = "closed"
    /\ producerPc' = "done"
    /\ UNCHANGED <<fillUnchanged, mu, fillTasks, workers, errChan, wg, waiterPc,
                   convertPc, filled>>

\* f(): findFuncs fails and the task returns its error, or the task goes on to
\* mu.Lock().
WorkerCall(w) ==
    /\ workers[w].pc = "call"
    /\ workers' = [workers EXCEPT ![w].pc = IF workers[w].f.err THEN "send" ELSE "lock"]
    /\ UNCHANGED <<fillUnchanged, mu, fillTasks, producerPc, funcsChan, errChan, wg,
                   waiterPc, convertPc, filled>>

\* mu.Lock() and the assignment to cacheFindFuncs or converter.packages.
WorkerLock(w) ==
    /\ workers[w].pc = "lock"
    /\ mu = 0
    /\ mu' = w
    /\ filled' = filled \cup {workers[w].f.key}
    /\ workers' = [workers EXCEPT ![w].pc = "unlock"]
    /\ UNCHANGED <<fillUnchanged, fillTasks, producerPc, funcsChan, errChan, wg,
                   waiterPc, convertPc>>

\* mu.Unlock(); the task returns nil.
WorkerUnlock(w) ==
    /\ workers[w].pc = "unlock"
    /\ mu' = 0
    /\ workers' = [workers EXCEPT ![w].pc = "send"]
    /\ UNCHANGED <<fillUnchanged, fillTasks, producerPc, funcsChan, errChan, wg,
                   waiterPc, convertPc, filled>>

\* errChan <- f(), taken by the range of ConvertProfiles, which returns on an error.
WorkerSend(w) ==
    /\ workers[w].pc = "send"
    /\ convertPc = "range"
    /\ errChan = "open"
    /\ convertPc' = IF workers[w].f.err THEN "returned" ELSE "range"
    /\ workers' = [workers EXCEPT ![w] = [pc |-> "range", f |-> NoTask]]
    /\ UNCHANGED <<fillUnchanged, mu, fillTasks, producerPc, funcsChan, errChan, wg,
                   waiterPc, filled>>

\* The range of worker w over the closed funcsChan ends: wg.Done(), the goroutine ends.
WorkerDone(w) ==
    /\ workers[w].pc = "range"
    /\ funcsChan = "closed"
    /\ workers' = [workers EXCEPT ![w].pc = "done"]
    /\ wg' = wg - 1
    /\ UNCHANGED <<fillUnchanged, mu, fillTasks, producerPc, funcsChan, errChan,
                   waiterPc, convertPc, filled>>

\* wg.Wait() returns; close(errChan).
WaiterClose ==
    /\ waiterPc = "wait"
    /\ wg = 0
    /\ errChan' = "closed"
    /\ waiterPc' = "done"
    /\ UNCHANGED <<fillUnchanged, mu, fillTasks, producerPc, workers, funcsChan, wg,
                   convertPc, filled>>

\* The range of ConvertProfiles over the closed errChan ends: the fill phase is over.
RangeEnd ==
    /\ convertPc = "range"
    /\ errChan = "closed"
    /\ convertPc' = "filled"
    /\ UNCHANGED <<fillUnchanged, mu, fillTasks, producerPc, workers, funcsChan,
                   errChan, wg, waiterPc, filled>>

NextFill ==
    \/ \E w \in FillWorkers : ProducerSend(w)
    \/ ProducerClose
    \/ \E w \in FillWorkers : WorkerCall(w)
    \/ \E w \in FillWorkers : WorkerLock(w)
    \/ \E w \in FillWorkers : WorkerUnlock(w)
    \/ \E w \in FillWorkers : WorkerSend(w)
    \/ \E w \in FillWorkers : WorkerDone(w)
    \/ WaiterClose
    \/ RangeEnd

\* The scheduler runs every goroutine that can take a step.
FairFill ==
    /\ WF_vars(\E w \in FillWorkers : ProducerSend(w))
    /\ WF_vars(ProducerClose)
    /\ \A w \in FillWorkers :
           /\ WF_vars(WorkerCall(w))
           /\ SF_vars(WorkerLock(w))
           /\ WF_vars(WorkerUnlock(w))
           /\ SF_vars(WorkerSend(w))
           /\ WF_vars(WorkerDone(w))
    /\ WF_vars(WaiterClose)
    /\ WF_vars(RangeEnd)

SpecFill == InitFill /\ [][NextFill]_vars /\ FairFill

\* C26: in the fill phase of ConvertProfiles the producer goroutine and every worker
\* goroutine eventually terminate, on every run, the runs where a task returns an
\* error and ConvertProfiles returns early included.
C26_FillGoroutinesTerminate ==
    <>(producerPc = "done" /\ \A w \in FillWorkers : workers[w].pc = "done")

----------------------------------------------------------------------------
\* The conversion of cover profiles package by package (convertPackage).

MaxConversions == 2

\* The path of the package and the names of its two files.
PkgPath == <<"p">>
PkgFiles == <<<<"a">>, <<"b">>>>

\* The source text of whole lines, for a statement or a block.
LineSpans ==
    {sp \in Spans : sp[1][2] = 0 /\ sp[2][2] = MaxCol}

\* The parsed file of that name: one function declaration named after the file,
\* which spans the file, with one statement.
ParsedFile(name, span) == [name |-> name, body |-> <<span>>]

\* findFuncs(parsedFile, fset): the extent of the declaration, with its statements.
findFuncsParsed(file) ==
    <<FuncExtent(file.name, <<1, 0>>, <<MaxLine, MaxCol>>,
                 [k \in 1..Len(file.body) |-> Extent(file.body[k][1], file.body[k][2])])>>

\* goPackages.Load(cfg, packageName): the packages of the directory.
Load(packageName) == IF packageName = PkgPath THEN <<goPkg>> ELSE <<>>

\* filepath.Dir(profile.FileName)
Dir(profile) == profile.Package

\* c.packages[path], in the packages cp of the converter (0: none).
packageOf(h, cp, path) ==
    IF \E i \in 1..Len(cp) : h[cp[i]].Name = path
    THEN cp[CHOOSE i \in 1..Len(cp) : h[cp[i]].Name = path]
    ELSE 0

\* strings.HasPrefix(name, "@")
isLiteral(name) == name # <<>> /\ Head(name) = "@"

RECURSIVE pkgFunctions(_, _, _, _, _, _, _)
\* for _, fe := range extents: the functions appended to pkg, their statements, and
\* visitedFunctions afterwards.
pkgFunctions(h, visited, pkg, path, file, extents, stmts) ==
    IF extents = <<>> THEN [heap |-> h, visited |-> visited, stmts |-> stmts]
    ELSE IF isLiteral(Head(extents).name) \/ (path \o Head(extents).name) \in visited
      THEN pkgFunctions(h, visited, pkg, path, file, Tail(extents), stmts)
    ELSE LET r == newFunction(h, file, Head(extents), stmts)
         IN pkgFunctions([r.heap EXCEPT ![pkg].Functions = Append(@, r.f)],
                         visited \cup {path \o Head(extents).name}, pkg, path, file,
                         Tail(extents), r.stmts)

\* The body of "for idx, file := range goPkg.Syntax" once pkg is there.
convertFile(h, visited, pkg, g, idx, p) ==
    LET r == pkgFunctions(h, visited, pkg, g.PkgPath, g.CompiledGoFiles[idx],
                          findFuncsParsed(g.Syntax[idx]), <<>>)
    IN [heap |-> attribute(r.heap, r.stmts, 1, p.Blocks), visited |-> r.visited]

RECURSIVE convertFiles(_, _, _, _, _, _)
\* for idx, file := range goPkg.Syntax, from the idx-th file on.
convertFiles(h, visited, cp, g, idx, p) ==
    IF idx > Len(g.Syntax) THEN [heap |-> h, visited |-> visited, packages |-> cp]
    ELSE IF packageOf(h, cp, g.PkgPath) = 0
      THEN convertFiles(Append(h, NewPackage(0, g.PkgPath)), visited,
                        Append(cp, Len(h) + 1), g, idx, p)
    ELSE LET r == convertFile(h, visited, packageOf(h, cp, g.PkgPath), g, idx, p)
         IN convertFiles(r.heap, r.visited, cp, g, idx + 1, p)

RECURSIVE convertPackage(_, _, _, _, _)
\* (c *converter) convertPackage(goPkgs, p)
convertPackage(h, visited, cp, goPkgs, p) ==
    IF goPkgs = <<>> THEN [heap |-> h, visited |-> visited, packages |-> cp]
    ELSE LET r == convertFiles(h, visited, cp, Head(goPkgs), 1, p)
         IN convertPackage(r.heap, r.visited, r.packages, Tail(goPkgs), p)

\* tempCache[packageName]: nil for a key the map does not hold.
cached(tempCache, packageName) ==
    IF packageName \in DOMAIN tempCache THEN tempCache[packageName] ELSE <<>>

\* delete(tempCache, prevPackage)
deleted(tempCache, prevPackage) ==
    [k \in (DOMAIN tempCache) \ {prevPackage} |-> tempCache[k]]

RECURSIVE convertProfiles(_, _, _, _, _, _, _)
\* for _, profile := range profiles, from the k-th profile on.
convertProfiles(h, visited, cp, profs, k, prevPackage, tempCache) ==
    IF k > Len(profs) THEN [heap |-> h, visited |-> visited, packages |-> cp]
    ELSE LET r == convertPackage(h, visited, cp,
                                 IF Dir(profs[k]) # prevPackage
                                 THEN Load(Dir(profs[k]))
                                 ELSE cached(tempCache, Dir(profs[k])),
                                 profs[k])
         IN convertProfiles(r.heap, r.visited, r.packages, profs, k + 1, Dir(profs[k]),
                            IF Dir(profs[k]) # prevPackage
                            THEN deleted(tempCache, prevPackage) ELSE tempCache)

\* The profile of a file of the package, with one block.
PkgProfile(i, span) ==
    [FileName |-> PkgFiles[i], Package |-> PkgPath,
     Blocks |-> <<ProfileBlock(span[1], span[2], 1)>>]

\* The profiles of a profile file, sorted by file name.
ProfileFiles ==
    {<<PkgProfile(i, sp)>> : i \in 1..2, sp \in LineSpans}
      \cup {<<PkgProfile(1, sp1), PkgProfile(2, sp2)>> : sp1 \in LineSpans, sp2 \in LineSpans}

InitPkg ==
    /\ NoRegistry
    /\ parsedFile = <<>>
    /\ tracePkgs = <<>>
    /\ reportPackages = <<>>
    /\ cacheFindFuncs = <<>>
    /\ NoTest
    /\ NoFill
    /\ NoDeps
    /\ profiles \in ProfileFiles
    /\ \E sa \in LineSpans, sb \in LineSpans :
           goPkg = [PkgPath |-> PkgPath, CompiledGoFiles |-> PkgFiles,
                    Syntax |-> <<ParsedFile(<<"f">>, sa), ParsedFile(<<"g">>, sb)>>]
    /\ visitedFunctions = {}
    /\ converted = <<>>

\* ConvertProfiles(filename) on the profile file, or its loop over the next of
\* several file names that name that file: a new converter, the profiles parsed and
\* converted, the packages of the converter handed to ps.AddPackage.
DoConvertProfiles ==
    /\ nops < MaxConversions
    /\ LET r == convertProfiles(heap, visitedFunctions, <<>>, profiles, 1, <<>>, <<>>)
       IN /\ heap' = r.heap
          /\ visitedFunctions' = r.visited
          /\ converted' = Append(converted, r.packages)
    /\ lastCall' = Call("ConvertProfiles", nops + 1, 0)
    /\ nops' = nops + 1
    /\ UNCHANGED <<Objects, Tracer, TraceFlags, out, ret, err, flagsSeen, goroutineVars,
                   tracePkgs, reportPackages, cacheFindFuncs, profiles, parsedFile,
                   testVars, fillVars, goPkg, depsVars>>

NextPkg == DoConvertProfiles

SpecPkg == InitPkg /\ [][NextPkg]_vars

\* The functions of the packages of the k-th conversion.
ConvertedFunctions(k) ==
    UNION {Range(heap[converted[k][i]].Functions) : i \in 1..Len(converted[k])}

\* The files the profiles of the profile file name.
ProfiledFiles == {profiles[i].FileName : i \in 1..Len(profiles)}

\* C27: convertPackage attributes the blocks of a profile to statements of the
\* source file the profile names only: a statement of a file of the package that no
\* profile names receives no count.
C27_OnlyTheProfiledFile ==
    \A k \in 1..Len(converted) : \A f \in ConvertedFunctions(k) :
        heap[f].File \notin ProfiledFiles =>
            \A i \in 1..Len(heap[f].Statements) : heap[heap[f].Statements[i]].Reached = 0

\* What a conversion produced: of each function its name, file and extent, and the
\* extents of its statements.
Produced(k) ==
    {[Name |-> heap[f].Name, File |-> heap[f].File, Start |-> heap[f].Start,
      End |-> heap[f].End,
      Statements |-> [i \in 1..Len(heap[f].Statements) |->
                         <<heap[heap[f].Statements[i]].Start,
                           heap[heap[f].Statements[i]].End>>]] :
        f \in ConvertedFunctions(k)}

\* C28: converting the same profile file twice produces the same functions and
\* statements each time.
C28_SameConversionTwice ==
    Len(converted) = 2 => Produced(1) = Produced(2)

----------------------------------------------------------------------------
\* The argument of Accumulate.

\* The objects of the graph of a: a, its functions and their statements.
Graph(h, a) == {a} \cup FunctionsOf(h, a) \cup StatementsOf(h, a)

\* C29: a.Accumulate(b), for a and b whose graphs share no object, leaves every
\* field and every counter of every object of the graph of b as it was, whether it
\* returns nil or an error.
C29_ArgumentUnchanged ==
    [][\A a, b \in 1..Len(heap) :
         (/\ lastCall'.op \in AccumulateOps
          /\ lastCall'.a = a
          /\ lastCall'.b = b
          /\ Graph(heap, a) \cap Graph(heap, b) = {})
           => \A o \in Graph(heap, b) : heap'[o] = heap[o]]_vars

\* Package.Accumulate has returned nil for two packages of two functions, and has
\* added the counts of the statements of the second package, which are not zero, to
\* those of the first.
C29_Witness ==
    /\ lastCall.op = "PackageAccumulate"
    /\ err = "nil"
    /\ Graph(heap, lastCall.a) \cap Graph(heap, lastCall.b) = {}
    /\ Len(heap[lastCall.b].Functions) = 2
    /\ \A i \in 1..2 :
         LET f == heap[lastCall.a].Functions[i]
             f2 == heap[lastCall.b].Functions[i]
         IN /\ heap[f2].Statements # <<>>
            /\ heap[heap[f2].Statements[1]].Reached > 0
            /\ heap[heap[f].Statements[1]].Reached > heap[heap[f2].Statements[1]].Reached

----------------------------------------------------------------------------
\* gocov test: instrumentAndTest calls instrumentPackage for every requested package,
\* and instrumentPackage calls itself for the imports of the package (-deps).

NPkgs == 3

Pkgs == 1..NPkgs

RECURSIVE SetToSeq(_, _)
\* The packages of the set ps from the package p on, in ascending order.
SetToSeq(ps, p) ==
    IF p > NPkgs THEN <<>>
    ELSE (IF p \in ps THEN <<p>> ELSE <<>>) \o SetToSeq(ps, p + 1)

\* buildpkg.Imports of the packages: no import cycle.
ImportMaps == {m \in [Pkgs -> SUBSET Pkgs] : \A p \in Pkgs : \A q \in m[p] : q > p}

\* buildpkg.TestImports and XTestImports of the packages: one import at most, of
\* any other package.
TestImportMaps ==
    {m \in [Pkgs -> SUBSET Pkgs] : \A p \in Pkgs : p \notin m[p] /\ Cardinality(m[p]) <= 1}

\* What makes instrumentPackage skip the last package, if anything: it is one of the
\* packages gocov depends on, it is named by -exclude, or it is in GOROOT and
\* -exclude-goroot is set.
SkipKinds == {"none", "uninstrumentable", "excluded", "goroot"}

\* The lists go list prints for the requested packages: no duplicates.
PackageLists ==
    {<<p>> : p \in Pkgs} \cup {l \in {<<p, q>> : p \in Pkgs, q \in Pkgs} : l[1] # l[2]}

\* instrumentable(path)
instrumentable(g, pkgpath) == ~(pkgpath = NPkgs /\ g.skip = "uninstrumentable")

\* sort.SearchStrings(in.excluded, pkgpath) finds pkgpath.
excluded(g, pkgpath) == pkgpath = NPkgs /\ g.skip = "excluded"

\* buildpkg.Goroot && *testExcludeGorootFlag
gorootExcluded(g, pkgpath) == pkgpath = NPkgs /\ g.skip = "goroot"

\* len(buildpkg.TestGoFiles)+len(buildpkg.XTestGoFiles) == 0
noTestFiles(g, pkgpath) == pkgpath \in g.noTests

\* imports, when -deps is set.
importsOf(g, pkgpath, testPackage) ==
    IF ~g.deps THEN <<>>
    ELSE SetToSeq(g.Imports[pkgpath], 1)
           \o (IF testPackage THEN SetToSeq(g.TestImports[pkgpath], 1) ELSE <<>>)

\* A call of instrumentPackage(pkgpath, testPackage) at its first statement.
Frame(pkgpath, testPackage) ==
    [pkgpath |-> pkgpath, testPackage |-> testPackage, pc |-> "entry", imports |-> <<>>]

\* The deferred function of instrumentPackage, run when the call returns.
deferred(in, pkgpath) ==
    IF pkgpath \notin in.instrumented
    THEN [in EXCEPT !.processed = @ \cup {pkgpath}]
    ELSE in

Caller(stack) == SubSeq(stack, 1, Len(stack) - 1)

InitDeps ==
    /\ NoRegistry
    /\ parsedFile = <<>>
    /\ tracePkgs = <<>>
    /\ reportPackages = <<>>
    /\ cacheFindFuncs = <<>>
    /\ profiles = <<>>
    /\ NoTest
    /\ NoFill
    /\ NoPkg
    /\ \E i \in ImportMaps, t \in TestImportMaps, skip \in SkipKinds,
          noTests \in {{}, {1}}, deps \in BOOLEAN :
           importGraph = [Imports |-> i, TestImports |-> t, skip |-> skip,
                          noTests |-> noTests, deps |-> deps]
    /\ packagePaths \in PackageLists
    /\ instrumenter = [instrumented |-> {}, processed |-> {}]
    /\ callStack = <<>>
    /\ rewritten = [p \in Pkgs |-> 0]

depsUnchanged == <<heap, Objects, Tracer, TraceFlags, out, lastCall, ret, err,
                   flagsSeen, nops, goroutineVars, tracePkgs, reportPackages,
                   cacheFindFuncs, profiles, parsedFile, testVars, fillVars, pkgVars,
                   importGraph>>

\* The loop of instrumentAndTest over packagePaths: in.instrumentPackage(packagePath,
\* true) is called once the call for the package before has returned.
CallInstrumentPackage ==
    /\ callStack = <<>>
    /\ packagePaths # <<>>
    /\ callStack' = <<Frame(Head(packagePaths), TRUE)>>
    /\ packagePaths' = Tail(packagePaths)
    /\ UNCHANGED <<depsUnchanged, instrumenter, rewritten>>

\* instrumentPackage up to its loop over the imports: it returns for a package that
\* is processed or skipped, and enters the package in in.instrumented otherwise.
EnterPackage ==
    /\ callStack # <<>>
    /\ LET f == callStack[Len(callStack)]
           g == importGraph
       IN /\ f.pc = "entry"
          /\ IF f.pkgpath \in instrumenter.processed
             THEN /\ callStack' = Caller(callStack)
                  /\ UNCHANGED instrumenter
             ELSE IF \/ ~instrumentable(g, f.pkgpath)
                     \/ excluded(g, f.pkgpath)
                     \/ (~f.testPackage /\ gorootExcluded(g, f.pkgpath))
               THEN /\ callStack' = Caller(callStack)
                    /\ instrumenter' = deferred(instrumenter, f.pkgpath)
             ELSE IF f.testPackage /\ noTestFiles(g, f.pkgpath)
               THEN /\ callStack' = Caller(callStack)
                    /\ instrumenter' = [instrumenter EXCEPT !.instrumented = @ \cup {f.pkgpath}]
             ELSE /\ callStack' = [callStack EXCEPT ![Len(callStack)] =
                                      [f EXCEPT !.pc = "imports",
                                                !.imports = importsOf(g, f.pkgpath, f.testPackage)]]
                  /\ instrumenter' = [instrumenter EXCEPT !.instrumented = @ \cup {f.pkgpath}]
    /\ UNCHANGED <<depsUnchanged, packagePaths, rewritten>>

\* for _, subpkgpath := range imports: the call for an import that is not in
\* in.instrumented.
ImportNext ==
    /\ callStack # <<>>
    /\ LET f == callStack[Len(callStack)]
           rest == [callStack EXCEPT ![Len(callStack)].imports = Tail(@)]
       IN /\ f.pc = "imports"
          /\ f.imports # <<>>
          /\ callStack' = IF Head(f.imports) \notin instrumenter.instrumented
                          THEN Append(rest, Frame(Head(f.imports), FALSE))
                          ELSE rest
    /\ UNCHANGED <<depsUnchanged, packagePaths, instrumenter, rewritten>>

\* The rest of instrumentPackage: the files of the package are instrumented and
\* written over their copies, and the call returns.
InstrumentAndRewrite ==
    /\ callStack # <<>>
    /\ LET f == callStack[Len(callStack)]
       IN /\ f.pc = "imports"
          /\ f.imports = <<>>
          /\ rewritten' = [rewritten EXCEPT ![f.pkgpath] = @ + 1]
          /\ instrumenter' = deferred(instrumenter, f.pkgpath)
          /\ callStack' = Caller(callStack)
    /\ UNCHANGED <<depsUnchanged, packagePaths>>

NextDeps ==
    \/ CallInstrumentPackage
    \/ EnterPackage
    \/ ImportNext
    \/ InstrumentAndRewrite

\* gocov test is one goroutine: it takes its next step.
SpecDeps == InitDeps /\ [][NextDeps]_vars /\ WF_vars(NextDeps)

\* C30: in one run of gocov test, instrumentPackage instruments and rewrites every
\* package once at most, whatever the requested packages and the imports are, and
\* the calls of instrumentPackage for the imports all return.
C30_OncePerPackage ==
    /\ [](\A p \in Pkgs : rewritten[p] <= 1)
    /\ <>(callStack = <<>> /\ packagePaths = <<>>)

====
